---- MODULE Spec2Model ----
(***************************************************************************)
(* A model of pelimanni's scheduler (src/schedule.js): scheduleMusic, the  *)
(* recursive schedulePart and playPendingNote, with the parts of           *)
(* src/instruments.js that the scheduler relies on (createInstrument,      *)
(* createInstance, playInstance's willPlayUntil, destroyInstance).         *)
(*                                                                         *)
(* Time is counted in integer units of 1/60 s, so that the default         *)
(* playAhead of 0.2 s is 12 units, the extra second of a hidden page is 60 *)
(* units and a cycle of 0.2 s is 12 units.  Every track of the model       *)
(* subdivides its cycle into whole units, so the divisions of the code are *)
(* exact here; floating-point rounding is outside the model.               *)
(*                                                                         *)
(* A JavaScript value that may be undefined is a sequence of length 0 or   *)
(* 1: None is undefined and Some(v) is the value v.                        *)
(***************************************************************************)
EXTENDS Integers, Sequences, FiniteSets, TLC

VARIABLES currentTime, hidden, ctxState, tracks, cycle, optionsPlayAhead, connectCallback,
          schedule, calls, lastWalk, lastParts, replica

vars == <<currentTime, hidden, ctxState, tracks, cycle, optionsPlayAhead, connectCallback, schedule, calls, lastWalk, lastParts, replica>>

None == <<>>
Some(v) == <<v>>

Max(a, b) == IF a > b THEN a ELSE b

(***************************************************************************)
(* Bounds of the model.                                                    *)
(***************************************************************************)
\* scheduleMusic is invoked at most MaxCalls times in a behaviour
MaxCalls == 3

\* the steps by which the audio clock advances between invocations
Deltas == {0, 6, 30}

(***************************************************************************)
(* Program constants, in units of 1/60 s where they are times.             *)
(***************************************************************************)
\* defaultOptions.playAhead = 0.2
DefaultPlayAhead == 12
\* document.hidden ? 1.0 + playAhead : playAhead
HiddenExtra == 60
\* if (checkedCycles > 64) throw
MaxCheckedCycles == 64

(***************************************************************************)
(* Playables.  Every node is a record of the same shape: k is the kind     *)
(* ("num", "null", "undef", "arr", "opt", "other"), v the number of a      *)
(* "num", items the elements of an "arr", o the fields of an "opt".        *)
(***************************************************************************)
NoOpts ==
  [velocity |-> None, volume |-> None, vibrato |-> None, vibratoFrequency |-> None,
   transpose |-> None, root |-> None, alternate |-> None, chord |-> None]

Num(n) == [k |-> "num", v |-> n, items |-> <<>>, o |-> NoOpts]
Rest == [k |-> "null", v |-> 0, items |-> <<>>, o |-> NoOpts]
Ext == [k |-> "undef", v |-> 0, items |-> <<>>, o |-> NoOpts]
Arr(s) == [k |-> "arr", v |-> 0, items |-> s, o |-> NoOpts]
Opt(r) == [k |-> "opt", v |-> 0, items |-> <<>>, o |-> r]
Other == [k |-> "other", v |-> 0, items |-> <<>>, o |-> NoOpts]

ChordOpt == Opt([NoOpts EXCEPT !.chord = Some(TRUE)])
AlternateOpt == Opt([NoOpts EXCEPT !.alternate = Some(TRUE)])

\* the instrument presets of the model; NoPreset is a falsy preset (line 57)
Presets == {"p1", "p2"}
NoPreset == "none"

Track(p, s) == [preset |-> p, sequence |-> s]

(***************************************************************************)
(* The (tracks, cycle, options.playAhead) arguments of the model, the same *)
(* in every invocation of a behaviour.  The first four tracks are the      *)
(* scenarios of the README and of the specification's section 8.           *)
(***************************************************************************)
Input(t, c, p) == [tracks |-> t, cycle |-> c, playAhead |-> p]

Inputs ==
  { Input(<<Track("p1", Arr(<<Num(0), Num(1)>>))>>, 12, DefaultPlayAhead),
    Input(<<Track("p1", Arr(<<Num(0), Arr(<<Rest, Num(2)>>)>>))>>, 12, DefaultPlayAhead),
    Input(<<Track("p1", Arr(<<Num(0), Ext, Num(2)>>))>>, 12, 6),
    Input(<<Track("p1", Arr(<<Num(0), Num(4), Num(7), ChordOpt>>))>>, 12, DefaultPlayAhead),
    Input(<<Track("p1", Arr(<<Num(0), Rest>>)),
            Track("p2", Arr(<<Arr(<<Ext, Num(5)>>), Arr(<<Ext, Ext>>),
                              Opt([NoOpts EXCEPT !.transpose = Some(2)])>>))>>,
          12, DefaultPlayAhead),
    Input(<<Track("p1", Arr(<<Arr(<<Num(1), Num(2)>>), Arr(<<Num(3), Ext>>), ChordOpt>>))>>,
          12, 6),
    Input(<<Track(NoPreset, Arr(<<Num(9)>>)),
            Track("p2", Arr(<<Num(0), Arr(<<Num(1), Ext>>), Rest, AlternateOpt>>))>>,
          12, 6) }

\* tracks whose arrays carry several option records, nested option records and flags
\* set to true and then to false; vibrato 0.5 is written 5 (tenths)
OptionInputs ==
  { Input(<<Track("p1", Arr(<<Num(0), Num(3),
                              Opt([NoOpts EXCEPT !.transpose = Some(1), !.vibrato = Some(5)]),
                              Opt([NoOpts EXCEPT !.transpose = Some(2)])>>))>>,
          12, DefaultPlayAhead),
    Input(<<Track("p1", Arr(<<Num(0), Num(3),
                              Opt([NoOpts EXCEPT !.transpose = Some(2), !.vibrato = Some(5)])>>))>>,
          12, DefaultPlayAhead),
    Input(<<Track("p1", Arr(<<Arr(<<Num(0), Opt([NoOpts EXCEPT !.transpose = Some(2)])>>),
                              Opt([NoOpts EXCEPT !.transpose = Some(5)])>>))>>,
          12, DefaultPlayAhead),
    Input(<<Track("p2", Arr(<<Num(0), Num(4), ChordOpt,
                              Opt([NoOpts EXCEPT !.chord = Some(FALSE)])>>))>>,
          12, DefaultPlayAhead),
    Input(<<Track("p2", Arr(<<Num(0), Num(1), AlternateOpt,
                              Opt([NoOpts EXCEPT !.alternate = Some(FALSE), !.volume = Some(3)])>>))>>,
          12, 6),
    Input(<<Track("p1", Arr(<<Arr(<<Num(0), Opt([NoOpts EXCEPT !.velocity = Some(1)])>>),
                              Arr(<<Num(1),
                                    Arr(<<Num(2), Opt([NoOpts EXCEPT !.volume = Some(3),
                                                                     !.velocity = Some(4)]),
                                          Opt([NoOpts EXCEPT !.volume = Some(6)])>>)>>),
                              Num(5),
                              Opt([NoOpts EXCEPT !.velocity = Some(2), !.vibratoFrequency = Some(4),
                                                 !.root = Some(9)])>>)),
            Track("p2", Arr(<<Arr(<<Num(1), Num(2), AlternateOpt,
                                    Opt([NoOpts EXCEPT !.vibrato = Some(7)])>>),
                              Num(0), AlternateOpt>>))>>,
          12, DefaultPlayAhead) }

\* tracks whose notes need several voices: a chord of sequences, whose notes are
\* dispatched out of the order of their start times, a chord in which a note starts
\* inside the release of the note before it, and a plain sequence
VoiceInputs ==
  { Input(<<Track("p1", Arr(<<Arr(<<Num(1), Num(2)>>), Arr(<<Num(3), Ext>>), ChordOpt>>))>>,
          12, 6),
    Input(<<Track("p2", Arr(<<Arr(<<Num(0), Rest>>), Arr(<<Rest, Num(1), Rest>>), Num(2),
                              ChordOpt>>))>>,
          12, DefaultPlayAhead),
    Input(<<Track("p1", Arr(<<Num(0), Num(1)>>))>>, 12, DefaultPlayAhead) }

\* tracks for the callers whose connectInstance callback may throw: a chord, which
\* needs a voice for each of its notes, and a sequence with a rest
ConnectInputs ==
  { Input(<<Track("p1", Arr(<<Num(0), Num(4), ChordOpt>>))>>, 12, DefaultPlayAhead),
    Input(<<Track("p2", Arr(<<Num(0), Rest>>)), Track("p1", Arr(<<Num(1), Num(2)>>))>>,
          12, 6) }

\* tracks of which the first, all rests and ties, dispatches no note, so that its
\* instrument entry never gets a voice
EntryInputs ==
  { Input(<<Track("p2", Arr(<<Rest, Ext>>)), Track("p1", Arr(<<Num(0), Num(4), ChordOpt>>))>>,
          12, DefaultPlayAhead),
    Input(<<Track("p1", Arr(<<Ext, Rest>>)), Track("p2", Arr(<<Num(0), Rest>>))>>, 12, 6) }

\* tracks that are an alternating array: of three numbers, and of a number and a
\* sequence
AlternateInputs ==
  { Input(<<Track("p1", Arr(<<Num(0), Num(1), Num(2), AlternateOpt>>))>>, 12, 6),
    Input(<<Track("p2", Arr(<<Num(0), Arr(<<Num(1), Num(2)>>), AlternateOpt>>))>>,
          12, DefaultPlayAhead) }

\* tracks with an array that has no child other than option records: alternating, a
\* chord, a sequence with a record, and an empty array
EmptyInputs ==
  { Input(<<Track("p1", Arr(<<Num(0), Arr(<<AlternateOpt>>)>>))>>, 12, DefaultPlayAhead),
    Input(<<Track("p1", Arr(<<Num(0), Arr(<<ChordOpt>>)>>))>>, 12, DefaultPlayAhead),
    Input(<<Track("p2", Arr(<<Num(0), Arr(<<Opt([NoOpts EXCEPT !.velocity = Some(2)])>>)>>))>>,
          12, 6),
    Input(<<Track("p2", Arr(<<Num(0), Arr(<<>>)>>))>>, 12, 6) }

\* tracks whose root sets both the alternate and the chord flag: in one option record,
\* and in two records with the chord flag first
BothInputs ==
  { Input(<<Track("p1", Arr(<<Num(0), Num(1), Num(2),
                              Opt([NoOpts EXCEPT !.alternate = Some(TRUE),
                                                 !.chord = Some(TRUE)])>>)),
            Track("p2", Arr(<<Arr(<<Num(0), Num(1)>>), Arr(<<Num(2), Rest>>),
                              ChordOpt, AlternateOpt>>))>>,
          12, p) : p \in {6, DefaultPlayAhead} }

\* tracks with an element of an unknown type (a string, a boolean): between two
\* numbers of a sequence, and as a child of an alternating array and of a chord
UnknownInputs ==
  { Input(<<Track("p1", Arr(<<Num(0), Other, Num(2)>>))>>, 12, DefaultPlayAhead),
    Input(<<Track("p2", Arr(<<Num(0), Other, AlternateOpt>>)),
            Track("p1", Arr(<<Arr(<<Num(1), Other>>), Other, ChordOpt>>))>>, 12, 6) }

\* tracks whose root is an alternating array with an alternating array for a child:
\* two children outside and three inside, and three outside and two inside
NestedInputs ==
  { Input(<<Track("p1", Arr(<<Num(0), Arr(<<Num(1), Num(2), Num(3), AlternateOpt>>),
                              AlternateOpt>>))>>, 12, DefaultPlayAhead),
    Input(<<Track("p2", Arr(<<Arr(<<Num(0), Num(1), AlternateOpt>>), Num(2), Num(3),
                              AlternateOpt>>))>>, 12, 6) }

\* tracks whose root is a chord, or alternates, and sets values, with arrays without a
\* flag of their own for children
LocalFlagInputs ==
  { Input(<<Track("p1", Arr(<<Arr(<<Num(0), Num(1)>>), Arr(<<Num(2), Arr(<<Num(3), Rest>>)>>),
                              Opt([NoOpts EXCEPT !.chord = Some(TRUE), !.velocity = Some(2),
                                                 !.root = Some(9), !.vibrato = Some(5)])>>))>>,
          12, DefaultPlayAhead),
    Input(<<Track("p2", Arr(<<Arr(<<Num(0), Num(1)>>), Arr(<<Num(2), Arr(<<Num(3), Num(4)>>)>>),
                              Opt([NoOpts EXCEPT !.alternate = Some(TRUE), !.transpose = Some(1),
                                                 !.volume = Some(3),
                                                 !.vibratoFrequency = Some(4)])>>))>>,
          12, 6) }

\* a cycle so short that the window of a hidden page spans more than 64 cycles
ShortCycleInputs == { Input(<<Track("p1", Arr(<<Num(0)>>))>>, 1, DefaultPlayAhead) }

\* a cycle of one unit under a playAhead of 2 and of 3 units: the window of a first
\* invocation on a hidden page, [0, playAhead + 60), takes 64 walks of the track in
\* the one and 65 in the other
CapInputs ==
  { Input(<<Track("p1", Arr(<<Num(0)>>))>>, 1, 2),
    Input(<<Track("p1", Arr(<<Num(0)>>))>>, 1, 3) }

\* two tracks under a cycle so short that the walk of the second runs into the cap
\* with a note pending; the first track is a rest
StaleInputs ==
  { Input(<<Track("p2", Arr(<<Rest>>)), Track("p1", Arr(<<Num(0)>>))>>, 1, DefaultPlayAhead) }

(***************************************************************************)
(* The schedule of createSchedule and the state threaded through one       *)
(* invocation.  A walk state w holds the part of the schedule that         *)
(* schedulePart and playPendingNote change (pendingNote, instruments) and  *)
(* what the invocation did: played (the calls of playInstance, in order),  *)
(* created / connected / destroyed (the voice ids given to createInstance, *)
(* connectInstance and destroyInstance), events (one entry per terminal    *)
(* that schedulePart evaluated), parts (one entry per call of              *)
(* schedulePart, with its arguments) and thrown.  The origin of a pending  *)
(* note (track, path of child indices, cycle) names the terminal that      *)
(* opened it; the code does not store it.                                  *)
(*                                                                         *)
(* The connectInstance argument of scheduleMusic is the caller's callback; *)
(* the model knows it by its behaviour: "connects" returns, "throws"       *)
(* throws for every voice, "throwsFirst" throws for the first voice it is  *)
(* given and returns for the others.  "missing" is the callback that       *)
(* createSchedule installs, and "undefined" the argument of a caller that  *)
(* passes no callback: calling it throws a TypeError.  "reenters" is a     *)
(* callback that calls scheduleMusic itself, with the arguments of its     *)
(* caller, and then returns.                                               *)
(***************************************************************************)
NoOrigin == [track |-> 0, path |-> <<>>, cyc |-> 0]

InitialPendingNote ==
  [pending |-> FALSE, instrument |-> NoPreset, note |-> 0, root |-> 0, at |-> 0,
   duration |-> 0, velocity |-> None, volume |-> None, vibrato |-> None,
   vibratoFrequency |-> None, origin |-> NoOrigin]

NoInstrument == [exists |-> FALSE, instances |-> <<>>]

createInstrument == [exists |-> TRUE, instances |-> <<>>]

Callbacks == {"connects", "throwsFirst", "throws"}

createSchedule ==
  [scheduledUpTo |-> 0, instruments |-> [p \in Presets |-> NoInstrument],
   connectInstance |-> "missing", pendingNote |-> InitialPendingNote, nextId |-> 1]

NoInherited ==
  [velocity |-> None, volume |-> None, vibrato |-> None, vibratoFrequency |-> None,
   transpose |-> None, root |-> None]

\* Coalesce that keeps the value of the record, set or not
CoalesceFirst(a, b) == a

\* Coalesce that keeps the inherited value, whatever the record sets
CoalesceSecond(a, b) == b

\* a ?? b
Coalesce(a, b) == IF a # None THEN a ELSE b

\* the release of a preset after playInstance's dynamics (defaultDynamicRelease)
DynamicRelease(preset) == IF preset = "p2" THEN 2 ELSE 0

\* playInstance: endAt = at + Math.max(duration * 0.618, duration - defaultDynamicRelease)
EndAt(preset, at, duration) ==
  at + Max((duration * 618) \div 1000, duration - DynamicRelease(preset))

\* createInstance: a new voice, added to the instrument's set
createInstance(w, preset) ==
  [w EXCEPT !.instruments[preset].instances =
              Append(@, [id |-> w.nextId, willPlayUntil |-> 0, connected |-> FALSE]),
            !.nextId = @ + 1,
            !.created = Append(@, w.nextId)]

\* whether the callback throws when it is given voice `id`
ConnectThrows(callback, id) ==
  callback \in {"throws", "missing", "undefined"} \/ (callback = "throwsFirst" /\ id = 1)

\* connectInstance that is never invoked
connectInstanceSkipped(w, preset, id) == w

\* scheduleMusic invoked from inside the callback (defined with scheduleMusic below)
RECURSIVE Reentered(_)

\* the callback wires the voice to the output, unless what it did before threw
Wired(w, preset, id) ==
  IF w.thrown THEN [w EXCEPT !.connected = Append(@, id)]
  ELSE [w EXCEPT !.instruments[preset].instances =
                   [i \in DOMAIN @ |->
                      IF @[i].id = id THEN [@[i] EXCEPT !.connected = TRUE] ELSE @[i]],
                 !.connected = Append(@, id)]

\* connectInstance(instance): the caller's callback is invoked with the voice; it
\* wires the voice to the output, or throws.  The callback "reenters" calls
\* scheduleMusic before it wires the voice, unless it is running inside such a call
connectInstance(w, preset, id) ==
  IF ConnectThrows(w.connectInstance, id)
    THEN [w EXCEPT !.connected = Append(@, id), !.thrown = TRUE]
    ELSE Wired(IF w.connectInstance = "reenters" /\ w.depth = 0 THEN Reentered(w) ELSE w,
               preset, id)

\* FindFreeInstance that takes the first instance of the set, free or not
FindAnyInstance(instances, at, i) == IF i > Len(instances) THEN 0 ELSE i

\* FindFreeInstance that finds none: every note is given a new instance
FindNoInstance(instances, at, i) == 0

\* FindFreeInstance that takes the first instance, free or not
FindFirstInstance(instances, at, i) == IF Len(instances) >= 1 THEN 1 ELSE 0

\* the index of the first instance whose willPlayUntil <= at, or 0
RECURSIVE FindFreeInstance(_, _, _)
FindFreeInstance(instances, at, i) ==
  IF i > Len(instances) THEN 0
  ELSE IF instances[i].willPlayUntil <= at THEN i
  ELSE FindFreeInstance(instances, at, i + 1)

\* playInstance(instance, frequency, at, duration, ...) for the voice `id` and the note
\* n that line 310 read: the metadata it sets on the voice and the record of the call;
\* voices is the set in which lines 316-321 looked for a free voice
playInstance(w, preset, id, n, voices, reused) ==
  [w EXCEPT !.instruments[preset].instances =
              [v \in DOMAIN @ |->
                 IF @[v].id = id
                   THEN [@[v] EXCEPT !.willPlayUntil = EndAt(preset, n.at, n.duration)]
                   ELSE @[v]],
            !.played = Append(@,
                [instrument |-> preset, instance |-> id, reused |-> reused,
                 freeAt |-> IF reused
                              THEN voices[CHOOSE v \in DOMAIN voices : voices[v].id = id].willPlayUntil
                              ELSE 0,
                 voices |-> voices,
                 note |-> n.note, root |-> n.root, at |-> n.at, duration |-> n.duration,
                 velocity |-> n.velocity, volume |-> n.volume, vibrato |-> n.vibrato,
                 vibratoFrequency |-> n.vibratoFrequency, origin |-> n.origin])]

playPendingNote(w) ==
  LET preset == w.pendingNote.instrument
      w1 == [w EXCEPT !.pendingNote.pending = FALSE]
      n == w1.pendingNote
      voices == w1.instruments[preset].instances
      free == FindFreeInstance(voices, n.at, 1)
  IN IF free # 0
       THEN playInstance(w1, preset, voices[free].id, n, voices, TRUE)
       ELSE LET w2 == createInstance(w1, preset)
                w3 == connectInstance(w2, preset, w1.nextId)
            IN IF w3.thrown THEN w3 ELSE playInstance(w3, preset, w1.nextId, n, voices, FALSE)

(***************************************************************************)
(* schedulePart, by kind of playable.                                      *)
(***************************************************************************)
\* EvalNumber without the test of line 153: a number before `from` opens a note
EvalNumberFromStart(w, instrument, n, at, duration, from, to, P, g) ==
  LET w1 == IF w.pendingNote.pending THEN playPendingNote(w) ELSE w
  IN IF w1.thrown \/ at > to THEN w1
     ELSE [w1 EXCEPT !.pendingNote =
             [pending |-> TRUE, instrument |-> instrument,
              note |-> n + (IF P.transpose # None THEN P.transpose[1] ELSE 0),
              root |-> IF P.root # None THEN P.root[1] ELSE 0,
              at |-> at, duration |-> duration,
              velocity |-> P.velocity, volume |-> P.volume, vibrato |-> P.vibrato,
              vibratoFrequency |-> P.vibratoFrequency, origin |-> g]]

\* typeof playable === "number" (lines 152-180)
EvalNumber(w, instrument, n, at, duration, from, to, P, g) ==
  IF at < from THEN w
  ELSE LET w1 == IF w.pendingNote.pending THEN playPendingNote(w) ELSE w
       IN IF w1.thrown \/ at > to THEN w1
          ELSE [w1 EXCEPT !.pendingNote =
                  [pending |-> TRUE, instrument |-> instrument,
                   note |-> n + (IF P.transpose # None THEN P.transpose[1] ELSE 0),
                   root |-> IF P.root # None THEN P.root[1] ELSE 0,
                   at |-> at, duration |-> duration,
                   velocity |-> P.velocity, volume |-> P.volume, vibrato |-> P.vibrato,
                   vibratoFrequency |-> P.vibratoFrequency, origin |-> g]]

\* EvalNull that skips the null without ending the pending note
EvalNullSkip(w) == w

\* playable === null (lines 183-186)
EvalNull(w) == IF w.pendingNote.pending THEN playPendingNote(w) ELSE w

\* playable === undefined (lines 189-192)
EvalUndefined(w, duration) ==
  IF w.pendingNote.pending THEN [w EXCEPT !.pendingNote.duration = @ + duration] ELSE w

\* IsOptionRecord that takes an element of an unknown type for an option record
IsOptionRecordOrUnknown(child) == child.k \in {"opt", "other"}

\* an option record: a truthy non-array object that is not a typed array (line 212)
IsOptionRecord(child) == child.k = "opt"

\* Truthy that takes no flag for set
TruthyNever(flag) == FALSE

\* alternate || child.alternate, chord || child.chord: the flag of a record is truthy
Truthy(flag) == flag = Some(TRUE)

\* the loop of lines 209-225 from item `index` on; m holds the merged values
RECURSIVE MergeOptions(_, _, _)
MergeOptions(items, index, m) ==
  IF index > Len(items) THEN m
  ELSE LET child == items[index] IN
       IF IsOptionRecord(child)
         THEN MergeOptions(items, index + 1,
                [P |-> [velocity |-> Coalesce(child.o.velocity, m.P.velocity),
                        volume |-> Coalesce(child.o.volume, m.P.volume),
                        vibrato |-> Coalesce(child.o.vibrato, m.P.vibrato),
                        vibratoFrequency |-> Coalesce(child.o.vibratoFrequency, m.P.vibratoFrequency),
                        transpose |-> Coalesce(child.o.transpose, m.P.transpose),
                        root |-> Coalesce(child.o.root, m.P.root)],
                 alternate |-> m.alternate \/ Truthy(child.o.alternate),
                 chord |-> m.chord \/ Truthy(child.o.chord),
                 amountOfOptions |-> m.amountOfOptions + 1])
         ELSE MergeOptions(items, index + 1, m)

\* one entry of w.events: a terminal evaluated at (at, duration), w before, w2 after
Logged(w, w2, kind, at, duration, from, to, g) ==
  [w2 EXCEPT !.events = Append(@,
     [kind |-> kind, at |-> at, duration |-> duration, from |-> from, to |-> to,
      origin |-> g, before |-> w.pendingNote, after |-> w2.pendingNote,
      playedBefore |-> Len(w.played), playedAfter |-> Len(w2.played)])]

Child(g, index) == [g EXCEPT !.path = Append(@, index)]

\* one entry of w.parts: schedulePart was called with these arguments; returned is
\* whether the test of line 150 made it return at once
Called(w, playable, at, duration, period, from, to, P, g) ==
  [w EXCEPT !.parts = Append(@,
     [origin |-> g, kind |-> playable.k, at |-> at, duration |-> duration,
      period |-> period, P |-> P, pending |-> w.pendingNote.pending,
      returned |-> at > to /\ ~w.pendingNote.pending])]

\* AlternateIndex that always picks the first child
AlternateIndexFirst(period, length) == 0

\* const index = Math.round(period) % length  (line 231), for a whole period >= 0
AlternateIndex(period, length) == period % length

\* ChildAt that gives every child the start of the array
ChildAtParent(at, index, childDuration) == at

\* const childAt = at + index * childDuration  (line 285)
ChildAt(at, index, childDuration) == at + index * childDuration

\* AlternateFirst that lets the chord flag win
ChordFirst(alternate, chord) == alternate /\ ~chord

\* if (alternate) of line 229, which is tested, and returns, before if (chord) of line 255
AlternateFirst(alternate, chord) == alternate

\* ChildPeriod that passes the period on as it is
ChildPeriodSame(period, index, length) == period

\* const childPeriod = (period - index) / length  (line 233); index is period % length,
\* so the division is exact
ChildPeriod(period, index, length) == (period - index) \div length

\* MergeStart that starts every array with the chord flag set
MergeStartAsChord(P) == [P |-> P, alternate |-> FALSE, chord |-> TRUE, amountOfOptions |-> 0]

\* lines 198-207: for every array the count of option records starts at 0 and the two
\* flags at false; the six values start at what the parent passed
MergeStart(P) == [P |-> P, alternate |-> FALSE, chord |-> FALSE, amountOfOptions |-> 0]

RECURSIVE schedulePart(_, _, _, _, _, _, _, _, _, _)
RECURSIVE scheduleChildren(_, _, _, _, _, _, _, _, _, _, _, _, _)

\* schedulePart(schedule, instrument, playable, at, duration, period, from, to, ...FromParent)
\* (a call made after an exception was thrown does not happen)
schedulePart(w0, instrument, playable, at, duration, period, from, to, P, g) ==
  IF w0.thrown THEN w0 ELSE
  LET w == Called(w0, playable, at, duration, period, from, to, P, g) IN
  IF at > to /\ ~w.pendingNote.pending THEN w
  ELSE IF playable.k = "num"
    THEN Logged(w, EvalNumber(w, instrument, playable.v, at, duration, from, to, P, g),
                "num", at, duration, from, to, g)
  ELSE IF playable.k = "null"
    THEN Logged(w, EvalNull(w), "null", at, duration, from, to, g)
  ELSE IF playable.k = "undef"
    THEN Logged(w, EvalUndefined(w, duration), "undef", at, duration, from, to, g)
  ELSE IF playable.k # "arr"
    THEN Logged(w, w, playable.k, at, duration, from, to, g)
  ELSE LET m == MergeOptions(playable.items, 1, MergeStart(P))
           length == Len(playable.items) - m.amountOfOptions
       IN IF AlternateFirst(m.alternate, m.chord)
            THEN \* Math.round(period) % length is NaN for length 0, and playable[NaN]
                 \* is undefined
                 IF length = 0
                   THEN schedulePart(w, instrument, Ext, at, duration, period, from, to, m.P,
                                     Child(g, 0))
                   ELSE LET index == AlternateIndex(period, length)
                        IN schedulePart(w, instrument, playable.items[index + 1], at, duration,
                                        ChildPeriod(period, index, length), from, to, m.P,
                                        Child(g, index))
          ELSE IF m.chord
            THEN scheduleChildren(w, instrument, playable.items, 0, length, at, 0, duration,
                                  period, from, to, m.P, g)
          ELSE IF length = 0 THEN w
          ELSE scheduleChildren(w, instrument, playable.items, 0, length, at,
                                duration \div length, duration \div length,
                                period, from, to, m.P, g)

\* the loops of lines 256-275 (step = 0) and 283-303 (step = childDuration)
scheduleChildren(w, instrument, items, index, length, at, step, childDuration, period, from, to, P, g) ==
  IF index >= length THEN w
  ELSE scheduleChildren(
         schedulePart(w, instrument, items[index + 1], ChildAt(at, index, step), childDuration,
                      period, from, to, P, Child(g, index)),
         instrument, items, index + 1, length, at, step, childDuration, period, from, to, P, g)

(***************************************************************************)
(* scheduleMusic.                                                          *)
(***************************************************************************)
\* Running without the early return: every context counts as running
RunningAlways(state) == TRUE

\* if (audioContext.state !== "running") return  (line 29)
Running(state) == state = "running"

\* CatchUp that skips to the current time only, without the look-ahead
CatchUpToNow(scheduledUpTo, now, playAhead) ==
  IF scheduledUpTo < now THEN now ELSE scheduledUpTo

\* CatchUp without its test: the cursor is reset in every invocation
CatchUpAlways(scheduledUpTo, now, playAhead) == now + playAhead

\* Skip to current time if needed (lines 41-43)
CatchUp(scheduledUpTo, now, playAhead) ==
  IF scheduledUpTo < now THEN scheduledUpTo + (now + playAhead - scheduledUpTo)
  ELSE scheduledUpTo

\* ScheduleAheadBy without the extra second of a hidden page
ScheduleAheadByVisible(isHidden, playAhead) == playAhead

\* const scheduleAheadBy = document.hidden ? 1.0 + playAhead : playAhead  (line 45)
ScheduleAheadBy(isHidden, playAhead) ==
  IF isHidden THEN HiddenExtra + playAhead ELSE playAhead

\* whether a window is scheduled (line 47)
HasWindow(scheduledUpTo, now, scheduleAheadBy) == scheduledUpTo < now + scheduleAheadBy

\* lines 52-53; Math.floor(from / cycle) is from \div cycle for from >= 0
CyclesToCheck(from, to, cyc) ==
  LET cycleEndsAt == ((from \div cyc) + 1) * cyc
  IN IF to > cycleEndsAt THEN 2 ELSE 1

\* KeepWalking that stops after the cycles within reach, a note pending or not
KeepWalkingWithinReach(w, checkedCycles, cyclesToCheck) == checkedCycles < cyclesToCheck

\* the condition of the while loop (line 66)
KeepWalking(w, checkedCycles, cyclesToCheck) ==
  checkedCycles < cyclesToCheck \/ w.pendingNote.pending

\* TooManyCycles that is true from the 64th walk on
TooManyCyclesFrom64(checkedCycles) == checkedCycles >= MaxCheckedCycles

\* if (checkedCycles > 64) throw, tested after checkedCycles++  (lines 72-76)
TooManyCycles(checkedCycles) == checkedCycles > MaxCheckedCycles

\* const cycleStartedAt = (Math.floor(from / cycle) + checkedCycles) * cycle  (line 67)
CycleStartedAt(from, cyc, checkedCycles) == ((from \div cyc) + checkedCycles) * cyc

\* Period that counts the walks of the invocation
PeriodOfInvocation(from, cyc, checkedCycles) == checkedCycles

\* const period = cycleStartedAt / cycle  (line 68): a whole number, the times being
\* whole multiples of the unit
Period(from, cyc, checkedCycles) == CycleStartedAt(from, cyc, checkedCycles) \div cyc

\* the while loop of lines 66-77 for one track, from checkedCycles on
RECURSIVE WalkCycles(_, _, _, _, _, _, _, _, _)
WalkCycles(w, instrument, sequence, checkedCycles, cyclesToCheck, from, to, cyc, track) ==
  IF ~KeepWalking(w, checkedCycles, cyclesToCheck) THEN w
  ELSE LET cycleStartedAt == CycleStartedAt(from, cyc, checkedCycles)
           period == Period(from, cyc, checkedCycles)
           w1 == schedulePart(w, instrument, sequence, cycleStartedAt, cyc, period, from, to,
                              NoInherited, [track |-> track, path |-> <<>>, cyc |-> period])
       IN IF w1.thrown \/ TooManyCycles(checkedCycles + 1)
            THEN [w1 EXCEPT !.thrown = TRUE]
            ELSE WalkCycles(w1, instrument, sequence, checkedCycles + 1, cyclesToCheck,
                            from, to, cyc, track)

\* Get or create the instrument (lines 62-63)
GetOrCreateInstrument(w, preset) ==
  IF w.instruments[preset].exists THEN w
  ELSE [w EXCEPT !.instruments[preset] = createInstrument]

\* the for loop over the tracks (lines 56-78), from track index `track` on
RECURSIVE WalkTracks(_, _, _, _, _, _, _)
WalkTracks(w, trks, track, cyclesToCheck, from, to, cyc) ==
  IF track > Len(trks) \/ w.thrown THEN w
  ELSE IF trks[track].preset = NoPreset
    THEN WalkTracks(w, trks, track + 1, cyclesToCheck, from, to, cyc)
  ELSE WalkTracks(
         WalkCycles(GetOrCreateInstrument(w, trks[track].preset), trks[track].preset,
                    trks[track].sequence, 0, cyclesToCheck, from, to, cyc, track),
         trks, track + 1, cyclesToCheck, from, to, cyc)

\* Inactive with a grace of one cycle
InactiveAfterOneCycle(scheduledUpTo, willPlayUntil, cyc) == scheduledUpTo - willPlayUntil > cyc

\* the test of line 83
Inactive(scheduledUpTo, willPlayUntil, cyc) == scheduledUpTo - willPlayUntil > cyc * 2

\* DestroyInactive without line 88: an instrument whose set is empty stays in the map
DestroyInactiveKeepEntries(w, scheduledUpTo, cyc) ==
  LET kept(p) == SelectSeq(w.instruments[p].instances,
                           LAMBDA i : ~(scheduledUpTo - i.willPlayUntil > cyc * 2))
      gone == { i.id : i \in UNION { { w.instruments[p].instances[j] :
                                        j \in DOMAIN w.instruments[p].instances } : p \in Presets } }
              \ UNION { { kept(p)[j].id : j \in DOMAIN kept(p) } : p \in Presets }
  IN [w EXCEPT !.instruments =
                 [p \in Presets |->
                    IF ~w.instruments[p].exists THEN NoInstrument
                    ELSE [exists |-> TRUE, instances |-> kept(p)]],
               !.destroyed = @ \cup gone]

\* Destroy inactive instances, and remove instruments with no instances (lines 81-89)
DestroyInactive(w, scheduledUpTo, cyc) ==
  LET kept(p) == SelectSeq(w.instruments[p].instances,
                           LAMBDA i : ~Inactive(scheduledUpTo, i.willPlayUntil, cyc))
      gone == { i.id : i \in UNION { { w.instruments[p].instances[j] :
                                        j \in DOMAIN w.instruments[p].instances } : p \in Presets } }
              \ UNION { { kept(p)[j].id : j \in DOMAIN kept(p) } : p \in Presets }
  IN [w EXCEPT !.instruments =
                 [p \in Presets |->
                    IF ~w.instruments[p].exists \/ kept(p) = <<>> THEN NoInstrument
                    ELSE [exists |-> TRUE, instances |-> kept(p)]],
               !.destroyed = @ \cup gone,
               !.evicted = @ \cup UNION { { [id |-> w.instruments[p].instances[j].id,
                                             willPlayUntil |-> w.instruments[p].instances[j].willPlayUntil,
                                             scheduledUpTo |-> scheduledUpTo] :
                                              j \in { k \in DOMAIN w.instruments[p].instances :
                                                        w.instruments[p].instances[k].id \in gone } } :
                                          p \in Presets }]

\* the walk state at the start of an invocation; now and hidden are the clock and the
\* visibility that the invocation read, depth is 1 inside an invocation made by the
\* callback, nested holds a record of every invocation made by the callback, evicted
\* the voices that were given to destroyInstance, with their willPlayUntil
StartWalk(sch) ==
  [pendingNote |-> sch.pendingNote, instruments |-> sch.instruments, nextId |-> sch.nextId,
   connectInstance |-> sch.connectInstance, scheduledUpTo |-> sch.scheduledUpTo,
   now |-> 0, hidden |-> FALSE, depth |-> 0, nested |-> <<>>, evicted |-> {},
   played |-> <<>>, events |-> <<>>, parts |-> <<>>, created |-> <<>>, connected |-> <<>>,
   destroyed |-> {}, thrown |-> FALSE]

\* ClaimWindow that leaves scheduledUpTo where it was
ClaimNothing(from, to) == from

\* schedule.scheduledUpTo = to  (line 50), before any track is walked
ClaimWindow(from, to) == to

\* lines 81-89, which an exception thrown by the walk skips
Evicted(w, cyc) == IF w.thrown THEN w ELSE DestroyInactive(w, w.scheduledUpTo, cyc)

\* the record that Reentered adds to nested: w is the walk state before and w2 the
\* walk state after the invocation
Nested(w, w2, windowed, from, to) ==
  [w2 EXCEPT !.depth = 0,
             !.nested = Append(@, [sutBefore |-> w.scheduledUpTo, windowed |-> windowed,
                                   from |-> IF windowed THEN from ELSE 0,
                                   to |-> IF windowed THEN to ELSE 0,
                                   playedBefore |-> Len(w.played),
                                   playedAfter |-> Len(w2.played),
                                   created |-> Len(w2.created) - Len(w.created),
                                   destroyed |-> w2.destroyed \ w.destroyed])]

\* the body of the if of line 47: claim the window, walk the tracks, evict
ScheduleWindow(sch, trks, cyc, now, isHidden, from, to) ==
  Evicted(WalkTracks([StartWalk(sch) EXCEPT !.scheduledUpTo = ClaimWindow(from, to),
                                            !.now = now, !.hidden = isHidden],
                     trks, 1, CyclesToCheck(from, to, cyc), from, to, cyc),
          cyc)

\* scheduleMusic(tracks, cycle, audioContext, connectInstance, options) called by the
\* connectInstance callback while the walk w of an invocation is under way: the same
\* audio context, running, the same schedule, and the clock and the visibility that the
\* outer invocation read.  What it does is done to the walk state of the outer
\* invocation, and a record of it is added to nested
Reentered(w) ==
  LET caught == CatchUp(w.scheduledUpTo, w.now, optionsPlayAhead)
      scheduleAheadBy == ScheduleAheadBy(w.hidden, optionsPlayAhead)
      windowed == HasWindow(caught, w.now, scheduleAheadBy)
      from == caught
      to == w.now + scheduleAheadBy
      w0 == [w EXCEPT !.depth = 1,
                      !.scheduledUpTo = IF windowed THEN ClaimWindow(from, to) ELSE caught]
  IN Nested(w,
            IF windowed
              THEN Evicted(WalkTracks(w0, tracks, 1, CyclesToCheck(from, to, cycle),
                                      from, to, cycle), cycle)
              ELSE w0,
            windowed, from, to)

NoWalk(sch) == StartWalk(sch)

\* what one invocation did
CallRecord(now, isHidden, state, playAhead, sch, caught, windowed, from, to, w) ==
  [now |-> now, hidden |-> isHidden, state |-> state, playAhead |-> playAhead,
   sutBefore |-> sch.scheduledUpTo, sutCaught |-> caught, windowed |-> windowed,
   from |-> from, to |-> to,
   sutAfter |-> IF windowed THEN w.scheduledUpTo ELSE caught,
   thrown |-> w.thrown, played |-> w.played, created |-> w.created,
   connected |-> w.connected, destroyed |-> w.destroyed, nested |-> w.nested,
   evicted |-> w.evicted,
   pendingBefore |-> sch.pendingNote.pending, pendingAfter |-> w.pendingNote.pending]

\* ScheduleOf with one schedule for every audio context
ScheduleOfAny(context) == schedule

\* schedules.get(audioContext) (lines 32-33, 93): each audio context has a schedule of
\* its own.  The model has two contexts: "main", whose schedule is the variable
\* schedule, and "replica", a second context that is driven with the inputs of the
\* first (its schedule and the records of its invocations are the variable replica)
ScheduleOf(context) == IF context = "replica" THEN replica.schedule ELSE schedule

\* what an invocation leaves when it returns or throws: the schedule (untouched by an
\* invocation on a context that is not running, line 29), the logs of the walk w and
\* the record of the invocation
Returned(now, isHidden, state, sch0, caught, windowed, from, to, w) ==
  [schedule |-> IF ~Running(state) THEN sch0
                ELSE [scheduledUpTo |-> IF windowed THEN w.scheduledUpTo ELSE caught,
                      instruments |-> w.instruments,
                      connectInstance |-> w.connectInstance,
                      pendingNote |-> w.pendingNote,
                      nextId |-> w.nextId],
   events |-> w.events, parts |-> w.parts,
   call |-> CallRecord(now, isHidden, state, optionsPlayAhead, sch0, caught, windowed,
                       from, to, w)]

\* the body of scheduleMusic(tracks, cycle, audioContext, connectInstance, {playAhead})
\* on the schedule sch0 of its audio context, when the audio clock reads `now`,
\* document.hidden is isHidden and audioContext.state is `state`: the schedule it
\* leaves, the record of the invocation and the logs of its walk
Invocation(sch0, callback, now, isHidden, state) ==
  IF ~Running(state)
    THEN Returned(now, isHidden, state, sch0, sch0.scheduledUpTo, FALSE, 0, 0, NoWalk(sch0))
    ELSE LET \* schedule.connectInstance = connectInstance  (line 35)
             sch == [sch0 EXCEPT !.connectInstance = callback]
             caught == CatchUp(sch.scheduledUpTo, now, optionsPlayAhead)
             scheduleAheadBy == ScheduleAheadBy(isHidden, optionsPlayAhead)
             windowed == HasWindow(caught, now, scheduleAheadBy)
             from == caught
             to == now + scheduleAheadBy
         IN Returned(now, isHidden, state, sch0, caught, windowed,
                     IF windowed THEN from ELSE 0, IF windowed THEN to ELSE 0,
                     IF windowed THEN ScheduleWindow(sch, tracks, cycle, now, isHidden, from, to)
                     ELSE NoWalk(sch))

\* scheduleMusic(tracks, cycle, audioContext, connectInstance, {playAhead}), invoked by
\* the caller on the main audio context
scheduleMusic(now, isHidden, state) ==
  /\ Len(calls) < MaxCalls
  /\ currentTime' = now
  /\ hidden' = isHidden
  /\ ctxState' = state
  /\ LET r == Invocation(ScheduleOf("main"), connectCallback, now, isHidden, state)
     IN /\ schedule' = r.schedule
        /\ lastWalk' = r.events
        /\ lastParts' = r.parts
        /\ calls' = Append(calls, r.call)
  /\ UNCHANGED <<tracks, cycle, optionsPlayAhead, connectCallback, replica>>

\* scheduleMusic invoked on the second audio context with the arguments, the clock, the
\* visibility and the context state of the next invocation of the first that it has not
\* seen yet
replay ==
  /\ Len(replica.calls) < Len(calls)
  /\ LET c == calls[Len(replica.calls) + 1]
         r == Invocation(ScheduleOf("replica"), connectCallback, c.now, c.hidden, c.state)
     IN replica' = [schedule |-> r.schedule, calls |-> Append(replica.calls, r.call)]
  /\ UNCHANGED <<currentTime, hidden, ctxState, tracks, cycle, optionsPlayAhead,
                 connectCallback, schedule, calls, lastWalk, lastParts>>

\* the audio context before the first invocation; the clock, the visibility and the
\* context state of an invocation are its inputs
InitCallbacks(inputs, callbacks) ==
  /\ currentTime = 0
  /\ hidden = FALSE
  /\ ctxState = "running"
  /\ \E input \in inputs :
       tracks = input.tracks /\ cycle = input.cycle /\ optionsPlayAhead = input.playAhead
  /\ connectCallback \in callbacks
  /\ schedule = createSchedule
  /\ calls = <<>>
  /\ lastWalk = <<>>
  /\ lastParts = <<>>
  /\ replica = [schedule |-> createSchedule, calls |-> <<>>]

\* a caller whose connectInstance callback returns
InitWith(inputs) == InitCallbacks(inputs, {"connects"})

Init == InitWith(Inputs)

InitShortCycle == InitWith(ShortCycleInputs)

\* an invocation by the caller's timer: the clock has not gone back.  document.hidden
\* is read only past the early return of line 29, so an invocation on a context that
\* is not running is given the flag of the invocation before it
Next ==
  \E d \in Deltas, isHidden \in BOOLEAN, state \in {"running", "suspended"} :
    /\ state = "suspended" => isHidden = hidden
    /\ scheduleMusic(currentTime + d, isHidden, state)

Spec == Init /\ [][Next]_vars

SpecShortCycle == InitShortCycle /\ [][Next]_vars

InitOptions == InitWith(OptionInputs)

InitVoices == InitWith(VoiceInputs)

SpecVoices == InitVoices /\ [][Next]_vars

\* callers whose connectInstance callback may throw
InitConnect == InitCallbacks(ConnectInputs, Callbacks)

SpecConnect == InitConnect /\ [][Next]_vars

SpecOptions == InitOptions /\ [][Next]_vars

\* callers whose connectInstance callback returns or throws, with a track that
\* dispatches nothing
InitEntries == InitCallbacks(EntryInputs, {"connects", "throws"})

SpecEntries == InitEntries /\ [][Next]_vars

InitCap == InitWith(CapInputs)

SpecCap == InitCap /\ [][Next]_vars

\* a caller that passes no connectInstance
InitMissing == InitCallbacks(ConnectInputs, {"undefined"})

SpecMissing == InitMissing /\ [][Next]_vars

\* two audio contexts, the second driven with the inputs of the first
ReplicaInputs ==
  { Input(<<Track("p2", Arr(<<Arr(<<Num(0), Rest>>), Arr(<<Rest, Num(1), Rest>>), Num(2),
                              ChordOpt>>)),
            Track("p1", Arr(<<Num(0), Arr(<<Num(1), Ext>>), Rest, AlternateOpt>>))>>,
          12, 6) }

InitReplicas == InitWith(ReplicaInputs)

NextReplicas ==
  \/ \E d \in {0, 30}, isHidden \in BOOLEAN, state \in {"running", "suspended"} :
       /\ state = "suspended" => isHidden = hidden
       /\ scheduleMusic(currentTime + d, isHidden, state)
  \/ replay

SpecReplicas == InitReplicas /\ [][NextReplicas]_vars

InitStale == InitWith(StaleInputs)

SpecStale == InitStale /\ [][Next]_vars

\* a caller whose connectInstance callback calls scheduleMusic
InitReentrant == InitCallbacks(ConnectInputs, {"reenters"})

SpecReentrant == InitReentrant /\ [][Next]_vars

InitAlternate == InitWith(AlternateInputs)

SpecAlternate == InitAlternate /\ [][Next]_vars

InitEmpty == InitWith(EmptyInputs)

SpecEmpty == InitEmpty /\ [][Next]_vars

InitBoth == InitWith(BothInputs)

SpecBoth == InitBoth /\ [][Next]_vars

InitUnknown == InitWith(UnknownInputs)

SpecUnknown == InitUnknown /\ [][Next]_vars

InitNested == InitWith(NestedInputs)

SpecNested == InitNested /\ [][Next]_vars

InitLocalFlags == InitWith(LocalFlagInputs)

SpecLocalFlags == InitLocalFlags /\ [][Next]_vars

(***************************************************************************)
(* Definitions shared by the properties.                                   *)
(***************************************************************************)
LastCall == calls[Len(calls)]

\* the invocation ran on a running context with scheduledUpTo behind the clock
Stalled(c) == c.state = "running" /\ c.sutBefore < c.now

\* the terminal numbers that one walk of `node` over the slice (at, duration) with
\* period `period` visits, each with its start time and its path of child indices:
\* the layout of lines 227-303 without the window tests
RECURSIVE NumbersOf(_, _, _, _, _)
NumbersOf(node, at, duration, period, path) ==
  IF node.k = "num" THEN { [at |-> at, path |-> path] }
  ELSE IF node.k # "arr" THEN {}
  ELSE LET m == MergeOptions(node.items, 1,
                  [P |-> NoInherited, alternate |-> FALSE, chord |-> FALSE,
                   amountOfOptions |-> 0])
           length == Len(node.items) - m.amountOfOptions
       IN IF length = 0 THEN {}
          ELSE IF m.alternate
            THEN LET index == period % length
                 IN NumbersOf(node.items[index + 1], at, duration,
                              (period - index) \div length, Append(path, index))
          ELSE UNION { NumbersOf(node.items[i + 1],
                                 IF m.chord THEN at ELSE at + i * (duration \div length),
                                 IF m.chord THEN duration ELSE duration \div length,
                                 period, Append(path, i)) : i \in 0 .. length - 1 }

\* an event of a walk at which schedulePart opened a note for a number
Opened(e) == e.kind = "num" /\ e.after.pending /\ e.after.origin = e.origin

\* the number of "undef" events that directly follow event x
RECURSIVE TieRun(_, _)
TieRun(ev, x) ==
  IF x + 1 \in DOMAIN ev /\ ev[x + 1].kind = "undef" THEN 1 + TieRun(ev, x + 1) ELSE 0

\* the sum of the slice durations of the events a .. b
RECURSIVE SumDur(_, _, _)
SumDur(ev, a, b) == IF a > b THEN 0 ELSE ev[a].duration + SumDur(ev, a + 1, b)

(***************************************************************************)
(* C1.  No note is dispatched to playInstance more than once: over all the *)
(* invocations of a behaviour, a terminal number of a track at a given     *)
(* absolute start time is played at most once, also when its start time is *)
(* the `to` of one invocation and the `from` of the next.                  *)
(***************************************************************************)
C1_NoNoteTwice ==
  \A i1, i2 \in DOMAIN calls :
    \A j1 \in DOMAIN calls[i1].played, j2 \in DOMAIN calls[i2].played :
      (i1 # i2 \/ j1 # j2) =>
        ~(/\ calls[i1].played[j1].origin = calls[i2].played[j2].origin
          /\ calls[i1].played[j1].at = calls[i2].played[j2].at)

(***************************************************************************)
(* C2.  An invocation that claims the window [from, to) and returns        *)
(* normally has dispatched every terminal number of every track whose      *)
(* start time lies in [from, to), whatever the length of the window in     *)
(* cycles and also for tracks with rests.                                  *)
(***************************************************************************)
C2_WindowCovered ==
  \A i \in DOMAIN calls :
    (calls[i].windowed /\ ~calls[i].thrown) =>
      \A t \in DOMAIN tracks :
        tracks[t].preset # NoPreset =>
          \A c \in (calls[i].from \div cycle) .. ((calls[i].to - 1) \div cycle) :
            \A x \in NumbersOf(tracks[t].sequence, c * cycle, cycle, c, <<>>) :
              (calls[i].from <= x.at /\ x.at < calls[i].to) =>
                \E j \in DOMAIN calls[i].played :
                  /\ calls[i].played[j].origin = [track |-> t, path |-> x.path, cyc |-> c]
                  /\ calls[i].played[j].at = x.at

(***************************************************************************)
(* C3.  An invocation with window [from, to) dispatches a note only for a  *)
(* terminal number with from <= start < to; for cycle 0.2 s, track [0, 1], *)
(* from = 0 and to = 0.2 s it dispatches exactly two notes.                *)
(***************************************************************************)
C3_OnlyInsideWindow ==
  \A i \in DOMAIN calls :
    /\ \A j \in DOMAIN calls[i].played :
         calls[i].from <= calls[i].played[j].at /\ calls[i].played[j].at < calls[i].to
    /\ ( /\ tracks = <<Track("p1", Arr(<<Num(0), Num(1)>>))>>
         /\ cycle = 12
         /\ calls[i].windowed /\ calls[i].from = 0 /\ calls[i].to = 12 )
       => Len(calls[i].played) = 2

(***************************************************************************)
(* C4.  Catch-up law (cursor), as first stated: an invocation on a running *)
(* context that finds scheduledUpTo < currentTime leaves scheduledUpTo =   *)
(* currentTime + playAhead, for both values of document.hidden.            *)
(***************************************************************************)
C4_CatchUpExact ==
  (Len(calls) > 0 /\ Stalled(LastCall)) =>
    schedule.scheduledUpTo = LastCall.now + LastCall.playAhead

(***************************************************************************)
(* C4, amended.  Such an invocation moves the cursor to currentTime +      *)
(* playAhead; on a visible page that is its value on return and no window  *)
(* is scheduled, on a hidden page the window [currentTime + playAhead,     *)
(* currentTime + playAhead + 1 s) is scheduled and scheduledUpTo is        *)
(* currentTime + playAhead + 1 s on return.                                *)
(***************************************************************************)
C4_CatchUpCursor ==
  (Len(calls) > 0 /\ Stalled(LastCall)) =>
    /\ LastCall.sutCaught = LastCall.now + LastCall.playAhead
    /\ LastCall.windowed = LastCall.hidden
    /\ LastCall.windowed => LastCall.from = LastCall.now + LastCall.playAhead
    /\ schedule.scheduledUpTo =
         LastCall.now + LastCall.playAhead + (IF LastCall.hidden THEN HiddenExtra ELSE 0)

\* a catch-up on a visible page and a later catch-up on a hidden page
C4_Witness ==
  \E i, k \in DOMAIN calls :
    /\ i < k
    /\ Stalled(calls[i]) /\ ~calls[i].hidden
    /\ Stalled(calls[k]) /\ calls[k].hidden /\ calls[k].now - calls[k].sutBefore > cycle

(***************************************************************************)
(* C5.  Catch-up law (skipped gap): after an invocation that found         *)
(* scheduledUpTo < currentTime, no note whose start lies in [old           *)
(* scheduledUpTo, currentTime + playAhead) is dispatched by that           *)
(* invocation or by any later one.                                         *)
(***************************************************************************)
C5_GapSkipped ==
  \A i \in DOMAIN calls :
    Stalled(calls[i]) =>
      \A k \in i .. Len(calls) :
        \A j \in DOMAIN calls[k].played :
          ~(/\ calls[i].sutBefore <= calls[k].played[j].at
            /\ calls[k].played[j].at < calls[i].now + calls[i].playAhead)

\* a gap of a cycle or more was skipped by an invocation that dispatched notes, and a
\* later invocation dispatched notes too
C5_Witness ==
  \E i, k \in DOMAIN calls :
    /\ i < k
    /\ Stalled(calls[i])
    /\ calls[i].now + calls[i].playAhead - calls[i].sutBefore >= cycle
    /\ calls[i].played # <<>>
    /\ calls[k].played # <<>>

(***************************************************************************)
(* C6.  Early exit: an invocation on a context that is not running changes *)
(* nothing of the schedule (scheduledUpTo, the voice sets, every           *)
(* willPlayUntil, the pending note), creates, connects and destroys no     *)
(* voice and dispatches no note; and an invocation after the context       *)
(* resumed dispatches no note for the time that passed while suspended.    *)
(***************************************************************************)
C6_EarlyExit ==
  /\ [][ctxState' # "running" =>
          /\ schedule' = schedule
          /\ lastWalk' = <<>>
          /\ calls'[Len(calls')].played = <<>>
          /\ calls'[Len(calls')].created = <<>>
          /\ calls'[Len(calls')].connected = <<>>
          /\ calls'[Len(calls')].destroyed = {}]_vars
  /\ [](\A i, k \in DOMAIN calls :
          (i < k /\ calls[i].state # "running" /\ calls[k].state = "running") =>
            \A j \in DOMAIN calls[k].played :
              ~(/\ calls[i].now <= calls[k].played[j].at
                /\ calls[k].played[j].at < calls[k].now))

\* a suspended invocation between two running ones that dispatched notes, with voices
\* alive and the clock advancing while suspended
C6_Witness ==
  /\ Len(calls) = 3
  /\ calls[1].played # <<>>
  /\ calls[2].state = "suspended"
  /\ calls[3].state = "running" /\ calls[3].now > calls[2].now /\ calls[3].played # <<>>
  /\ \E p \in Presets : schedule.instruments[p].exists

(***************************************************************************)
(* C7.  Window computation: with scheduleAheadBy = playAhead on a visible  *)
(* page and playAhead + 1 s on a hidden one, an invocation on a running    *)
(* context whose scheduledUpTo (after the catch-up) is below currentTime + *)
(* scheduleAheadBy walks exactly the window from = scheduledUpTo, to =     *)
(* currentTime + scheduleAheadBy and leaves scheduledUpTo = to; otherwise  *)
(* it dispatches nothing, creates and destroys no voice and leaves         *)
(* scheduledUpTo as it was.                                                *)
(***************************************************************************)
C7_Window ==
  \A i \in DOMAIN calls :
    calls[i].state = "running" =>
      LET c == calls[i]
          ahead == IF c.hidden THEN c.playAhead + HiddenExtra ELSE c.playAhead
          caught == IF c.sutBefore < c.now THEN c.now + c.playAhead ELSE c.sutBefore
      IN /\ IF caught < c.now + ahead
              THEN c.windowed /\ c.from = caught /\ c.to = c.now + ahead /\ c.sutAfter = c.to
              ELSE /\ ~c.windowed /\ c.sutAfter = caught
                   /\ c.played = <<>> /\ c.created = <<>> /\ c.destroyed = {}
         /\ i = Len(calls) =>
              /\ schedule.scheduledUpTo = c.sutAfter
              /\ \A x \in DOMAIN lastWalk :
                   lastWalk[x].from = c.from /\ lastWalk[x].to = c.to

\* a window on a hidden page, then an invocation with nothing to schedule while voices
\* exist
C7_Witness ==
  \E i, k \in DOMAIN calls :
    /\ i < k
    /\ calls[i].state = "running" /\ calls[i].windowed /\ calls[i].hidden
    /\ calls[i].played # <<>>
    /\ calls[k].state = "running" /\ ~calls[k].windowed
    /\ \E p \in Presets : schedule.instruments[p].instances # <<>>

(***************************************************************************)
(* C8.  scheduledUpTo never decreases: after any invocation (running or    *)
(* suspended, hidden or visible, returning or throwing) its value is >=    *)
(* its value before.                                                       *)
(***************************************************************************)
C8_Monotonic == [][schedule'.scheduledUpTo >= schedule.scheduledUpTo]_vars

\* an invocation threw the iteration-cap error and advanced the cursor, and later
\* invocations followed, one of them suspended
C8_Witness ==
  \E i, k \in DOMAIN calls :
    /\ i < k
    /\ calls[i].thrown /\ calls[i].sutAfter > calls[i].sutBefore
    /\ calls[k].state = "suspended"
    /\ k < Len(calls) /\ LastCall.state = "running" /\ LastCall.sutAfter > LastCall.sutBefore

(***************************************************************************)
(* C9.  Tie/extend law: a terminal number with slice duration d0 that is   *)
(* followed by m consecutive `undefined` markers with slices d1..dm is     *)
(* dispatched as exactly one note of duration d0 + d1 + ... + dm; an       *)
(* `undefined` reached while no note is pending changes and dispatches     *)
(* nothing.                                                                *)
(***************************************************************************)
C9_TieLaw ==
  /\ \A x \in DOMAIN lastWalk :
       lastWalk[x].kind = "undef" =>
         /\ lastWalk[x].playedAfter = lastWalk[x].playedBefore
         /\ ~lastWalk[x].before.pending => lastWalk[x].after = lastWalk[x].before
  /\ \A x \in DOMAIN lastWalk :
       Opened(lastWalk[x]) =>
         LET m == TieRun(lastWalk, x)
             y == x + m + 1
         IN /\ y \in DOMAIN lastWalk
            /\ lastWalk[y].playedAfter = lastWalk[y].playedBefore + 1
            /\ LET n == LastCall.played[lastWalk[y].playedAfter]
               IN /\ n.origin = lastWalk[x].origin
                  /\ n.at = lastWalk[x].at
                  /\ n.duration = lastWalk[x].duration + SumDur(lastWalk, x + 1, x + m)

(***************************************************************************)
(* C10.  Rest law: evaluating a `null` never opens or dispatches a note of *)
(* its own; a note pending when the `null` is reached is flushed, that is  *)
(* dispatched with the duration accumulated so far and the pending flag    *)
(* cleared, so a note directly followed by a rest is dispatched with its   *)
(* own slice as duration.                                                  *)
(***************************************************************************)
C10_RestLaw ==
  \A x \in DOMAIN lastWalk :
    lastWalk[x].kind = "null" =>
      LET e == lastWalk[x] IN
      IF e.before.pending
        THEN /\ e.after = [e.before EXCEPT !.pending = FALSE]
             /\ e.playedAfter = e.playedBefore + 1
             /\ LET n == LastCall.played[e.playedAfter]
                IN /\ n.origin = e.before.origin
                   /\ n.note = e.before.note
                   /\ n.at = e.before.at
                   /\ n.duration = e.before.duration
                   /\ (x > 1 /\ Opened(lastWalk[x - 1])) =>
                        n.duration = lastWalk[x - 1].duration
        ELSE e.after = e.before /\ e.playedAfter = e.playedBefore

\* one walk reached a null while no note was pending and, later, a null that ended a
\* note lengthened by a tie
C10_Witness ==
  /\ \E x \in DOMAIN lastWalk : lastWalk[x].kind = "null" /\ ~lastWalk[x].before.pending
  /\ \E x \in DOMAIN lastWalk :
       /\ lastWalk[x].kind = "null" /\ lastWalk[x].before.pending
       /\ x > 1 /\ lastWalk[x - 1].kind = "undef"
       /\ lastWalk[x].playedAfter = lastWalk[x].playedBefore + 1

(***************************************************************************)
(* Definitions shared by the properties of the evaluator: the node of a    *)
(* track that a path of child indices names, and what its items say, read  *)
(* off the track itself.                                                   *)
(***************************************************************************)
RECURSIVE NodeAt(_, _)
NodeAt(node, path) ==
  IF path = <<>> THEN node ELSE NodeAt(node.items[path[1] + 1], Tail(path))

\* the node that an entry of lastParts or the origin of a note is about
NodeOf(g) == NodeAt(tracks[g.track].sequence, g.path)

OptionIndices(node) == { i \in DOMAIN node.items : node.items[i].k = "opt" }

\* the number of children of an array that are not option records
NonOptions(node) == Len(node.items) - Cardinality(OptionIndices(node))

\* every option record of the array comes after every other child
TrailingOptions(node) ==
  \A i \in OptionIndices(node) : \A j \in DOMAIN node.items \ OptionIndices(node) : j < i

\* some option record of the array sets the flag to true
FlagSet(node, flag) == \E i \in OptionIndices(node) : node.items[i].o[flag] = Some(TRUE)

\* the entries of lastParts for child `index` of the call that entry x is about
ChildCalls(x, index) ==
  { y \in DOMAIN lastParts : y > x /\ lastParts[y].origin = Child(lastParts[x].origin, index) }

\* entry x of lastParts is an array with trailing option records that schedulePart
\* went into, in an invocation that returned normally
EnteredArray(x) ==
  /\ lastParts[x].kind = "arr"
  /\ ~lastParts[x].returned
  /\ TrailingOptions(NodeOf(lastParts[x].origin))
  /\ ~LastCall.thrown

(***************************************************************************)
(* C11.  Cycle subdivision law: for an array with N >= 1 children that are *)
(* not option records, trailing option records and neither alternate nor   *)
(* chord set, child i is evaluated once, with start = parent start + i *   *)
(* (duration / N), duration = duration / N and the parent's period; the    *)
(* slices of the children are contiguous, do not overlap, and their        *)
(* durations sum to the parent's duration.                                 *)
(***************************************************************************)
C11_Subdivision ==
  \A x \in DOMAIN lastParts :
    LET e == lastParts[x]
        node == NodeOf(e.origin)
        N == NonOptions(node)
    IN (EnteredArray(x) /\ N >= 1 /\ ~FlagSet(node, "alternate") /\ ~FlagSet(node, "chord")) =>
         /\ \A i \in 0 .. N - 1 :
              /\ Cardinality(ChildCalls(x, i)) = 1
              /\ \A y \in ChildCalls(x, i) :
                   /\ lastParts[y].at = e.at + i * (e.duration \div N)
                   /\ lastParts[y].duration = e.duration \div N
                   /\ lastParts[y].period = e.period
                   /\ i = 0 => lastParts[y].at = e.at
                   /\ i = N - 1 => lastParts[y].at + lastParts[y].duration = e.at + e.duration
                   /\ i < N - 1 =>
                        \A z \in ChildCalls(x, i + 1) :
                          lastParts[z].at = lastParts[y].at + lastParts[y].duration
         /\ \A i \in N .. Len(node.items) : ChildCalls(x, i) = {}

\* a walk went into a sequence with a trailing option record whose second child is a
\* sequence of two, and into that child
C11_Witness ==
  \E x \in DOMAIN lastParts :
       /\ EnteredArray(x)
       /\ lastParts[x].origin.path = <<>>
       /\ OptionIndices(NodeOf(lastParts[x].origin)) # {}
       /\ ~FlagSet(NodeOf(lastParts[x].origin), "chord")
       /\ ~FlagSet(NodeOf(lastParts[x].origin), "alternate")
       /\ \E y \in ChildCalls(x, 1) :
            /\ lastParts[y].kind = "arr" /\ ~lastParts[y].returned
            /\ lastParts[y].at > lastParts[x].at
            /\ ChildCalls(y, 1) # {}

(***************************************************************************)
(* C12.  Chord law: for an array with the chord flag set, alternate not    *)
(* set and N children, each of the N children is evaluated once, with the  *)
(* parent's start, the parent's duration and the parent's period; for the  *)
(* track [0, 4, 7, {chord: true}] and a cycle of 0.2 s the notes           *)
(* dispatched for a cycle are three, of pitches 0, 4 and 7, each with the  *)
(* start of the cycle (0 for the first) and duration 0.2 s.                *)
(***************************************************************************)
ChordScenario ==
  /\ tracks = <<Track("p1", Arr(<<Num(0), Num(4), Num(7), ChordOpt>>))>>
  /\ cycle = 12

\* the notes that invocation i dispatched with start `at`
PlayedAt(i, at) == { j \in DOMAIN calls[i].played : calls[i].played[j].at = at }

C12_ChordLaw ==
  /\ \A x \in DOMAIN lastParts :
       LET e == lastParts[x]
           node == NodeOf(e.origin)
           N == NonOptions(node)
       IN (EnteredArray(x) /\ FlagSet(node, "chord") /\ ~FlagSet(node, "alternate")) =>
            /\ \A i \in 0 .. N - 1 :
                 /\ Cardinality(ChildCalls(x, i)) = 1
                 /\ \A y \in ChildCalls(x, i) :
                      /\ lastParts[y].at = e.at
                      /\ lastParts[y].duration = e.duration
                      /\ lastParts[y].period = e.period
            /\ \A i \in N .. Len(node.items) : ChildCalls(x, i) = {}
  /\ ChordScenario =>
       \A i \in DOMAIN calls :
         /\ (calls[i].windowed /\ calls[i].from = 0) => PlayedAt(i, 0) # {}
         /\ \A j \in DOMAIN calls[i].played :
              LET together == PlayedAt(i, calls[i].played[j].at)
              IN /\ Cardinality(together) = 3
                 /\ { calls[i].played[k].note : k \in together } = {0, 4, 7}
                 /\ \A k \in together : calls[i].played[k].duration = 12

\* the first invocation on [0, 4, 7, {chord: true}] dispatched its three notes of start
\* 0 from a chord whose three children were evaluated
C12_Witness ==
  /\ ChordScenario
  /\ Len(calls) = 1 /\ Cardinality(PlayedAt(1, 0)) = 3
  /\ \E x \in DOMAIN lastParts :
       /\ EnteredArray(x) /\ lastParts[x].at = 0
       /\ \A i \in 0 .. 2 : ChildCalls(x, i) # {}

(***************************************************************************)
(* C13.  Alternate law: an array with the alternate flag and N children,   *)
(* evaluated at a whole period p, recurses into exactly one child, the one *)
(* at index p mod N, and gives it the array's full start and duration;     *)
(* over N consecutive periods each child is selected exactly once, in      *)
(* index order: at the period after p the child after p mod N (the first   *)
(* after the last) is selected.                                            *)
(***************************************************************************)
\* the child indices that the call of entry x went into
Selected(x) == { i \in 0 .. Len(NodeOf(lastParts[x].origin).items) : ChildCalls(x, i) # {} }

AlternateEntered(x) ==
  /\ EnteredArray(x)
  /\ FlagSet(NodeOf(lastParts[x].origin), "alternate")
  /\ NonOptions(NodeOf(lastParts[x].origin)) >= 1

C13_AlternateLaw ==
  /\ \A x \in DOMAIN lastParts :
       LET e == lastParts[x]
           N == NonOptions(NodeOf(e.origin))
       IN AlternateEntered(x) =>
            /\ Selected(x) = { e.period % N }
            /\ Cardinality(ChildCalls(x, e.period % N)) = 1
            /\ \A y \in ChildCalls(x, e.period % N) :
                 lastParts[y].at = e.at /\ lastParts[y].duration = e.duration
  /\ \A x1, x2 \in DOMAIN lastParts :
       LET N == NonOptions(NodeOf(lastParts[x1].origin))
       IN ( /\ AlternateEntered(x1) /\ AlternateEntered(x2)
            /\ lastParts[x1].origin.track = lastParts[x2].origin.track
            /\ lastParts[x1].origin.path = lastParts[x2].origin.path
            /\ lastParts[x2].period = lastParts[x1].period + 1 )
          => \A i1 \in Selected(x1), i2 \in Selected(x2) : i2 = (i1 + 1) % N

\* one walk went into an alternating array of three children at two consecutive
\* periods, the first of which selected the last child
C13_Witness ==
  \E x1, x2 \in DOMAIN lastParts :
    /\ AlternateEntered(x1) /\ AlternateEntered(x2)
    /\ NonOptions(NodeOf(lastParts[x1].origin)) = 3
    /\ lastParts[x1].origin.path = lastParts[x2].origin.path
    /\ lastParts[x2].period = lastParts[x1].period + 1
    /\ Selected(x1) = {2} /\ Selected(x2) = {0}

(***************************************************************************)
(* Definitions shared by the properties of option records, read off the    *)
(* track: the value that the last record of an array setting a field gives *)
(* it, and the value a terminal inherits along its path.                   *)
(***************************************************************************)
ValueFields == {"velocity", "volume", "vibrato", "vibratoFrequency", "transpose", "root"}

Setting(node, field) == { i \in OptionIndices(node) : node.items[i].o[field] # None }

\* the value of the last option record of the array that sets the field, or None
LastSet(node, field) ==
  IF Setting(node, field) = {} THEN None
  ELSE node.items[CHOOSE i \in Setting(node, field) :
                    \A j \in Setting(node, field) : j <= i].o[field]

\* the value of the field at the end of `path` below `node`: that of the innermost
\* array on the path that sets it, or `inherited`
RECURSIVE Nearest(_, _, _, _)
Nearest(node, path, field, inherited) ==
  IF path = <<>> THEN inherited
  ELSE Nearest(node.items[path[1] + 1], Tail(path), field,
               IF LastSet(node, field) # None THEN LastSet(node, field) ELSE inherited)

\* the sum of the transposes of the arrays on `path` below `node`
RECURSIVE SumOfTransposes(_, _)
SumOfTransposes(node, path) ==
  IF path = <<>> THEN 0
  ELSE (IF LastSet(node, "transpose") # None THEN LastSet(node, "transpose")[1] ELSE 0)
       + SumOfTransposes(node.items[path[1] + 1], Tail(path))

\* every entry of lastParts for a child of the call that entry x is about
AllChildCalls(x) == UNION { ChildCalls(x, i) : i \in 0 .. Len(NodeOf(lastParts[x].origin).items) }

\* the walk of the next window of the playAhead length over the tracks trks, from the
\* schedule as it is
NextWalk(trks) ==
  ScheduleWindow([schedule EXCEPT !.connectInstance = connectCallback], trks, cycle,
                 schedule.scheduledUpTo, FALSE,
                 schedule.scheduledUpTo, schedule.scheduledUpTo + optionsPlayAhead)

MergeScenario == <<Track("p1", Arr(<<Num(0), Num(3), Opt([NoOpts EXCEPT !.transpose = Some(1), !.vibrato = Some(5)]), Opt([NoOpts EXCEPT !.transpose = Some(2)])>>))>>

MergedScenario == <<Track("p1", Arr(<<Num(0), Num(3), Opt([NoOpts EXCEPT !.transpose = Some(2), !.vibrato = Some(5)])>>))>>

(***************************************************************************)
(* C14.  Option merging: when several option records of an array set the   *)
(* same field the last one that sets it wins, and a field that no record   *)
(* sets keeps the value inherited from the parent; this holds for every    *)
(* field, the alternate and chord flags included: a later record that sets *)
(* the flag to false overrides an earlier one that set it to true.         *)
(* [0, x, {transpose: 1, vibrato: 0.5}, {transpose: 2}] is evaluated as    *)
(* [0, x, {transpose: 2, vibrato: 0.5}] is.                                *)
(***************************************************************************)
C14_OptionMerging ==
  /\ \A x \in DOMAIN lastParts :
       LET e == lastParts[x]
           node == NodeOf(e.origin)
           N == NonOptions(node)
           alternate == LastSet(node, "alternate") = Some(TRUE)
           chord == LastSet(node, "chord") = Some(TRUE)
       IN EnteredArray(x) =>
            /\ \A y \in AllChildCalls(x) : \A field \in ValueFields :
                 lastParts[y].P[field] =
                   IF LastSet(node, field) # None THEN LastSet(node, field) ELSE e.P[field]
            /\ N >= 1 =>
                 IF alternate THEN Selected(x) = { e.period % N }
                 ELSE /\ Selected(x) = 0 .. N - 1
                      /\ \A i \in 0 .. N - 1 : \A y \in ChildCalls(x, i) :
                           lastParts[y].at =
                             IF chord THEN e.at ELSE e.at + i * (e.duration \div N)
  /\ tracks = MergeScenario =>
       /\ NextWalk(MergeScenario) = NextWalk(MergedScenario)
       /\ \A i \in DOMAIN calls : \A j \in DOMAIN calls[i].played :
            calls[i].played[j].vibrato = Some(5)

(***************************************************************************)
(* C15.  Parameter inheritance: a dispatched note carries, for each of     *)
(* velocity, volume, vibrato and vibratoFrequency, the value set by the    *)
(* innermost array around its terminal whose option records set the field  *)
(* (the last such record of that array), and undefined if no array around  *)
(* it sets the field; a value set on an array does not reach a note        *)
(* outside the array.                                                      *)
(***************************************************************************)
NoteParameters == {"velocity", "volume", "vibrato", "vibratoFrequency"}

\* the arrays around the terminal at `path` below `node` that set the field, as lengths
\* of the prefixes of the path that lead to them
SettingAround(node, path, field) ==
  { d \in 0 .. Len(path) - 1 : Setting(NodeAt(node, SubSeq(path, 1, d)), field) # {} }

C15_Inheritance ==
  \A i \in DOMAIN calls : \A j \in DOMAIN calls[i].played :
    LET n == calls[i].played[j]
        sequence == tracks[n.origin.track].sequence
    IN \A field \in NoteParameters :
         /\ n[field] = Nearest(sequence, n.origin.path, field, None)
         /\ SettingAround(sequence, n.origin.path, field) = {} => n[field] = None
         /\ SettingAround(sequence, n.origin.path, field) # {} =>
              LET d == CHOOSE d \in SettingAround(sequence, n.origin.path, field) :
                         \A d2 \in SettingAround(sequence, n.origin.path, field) : d2 <= d
              IN n[field] = LastSet(NodeAt(sequence, SubSeq(n.origin.path, 1, d)), field)

\* notes were dispatched of which one took its velocity from the inner of two arrays
\* that set it, one from the outer and none from an array beside it, and one has no
\* volume while a note of another array has one
C15_Witness ==
  \E i \in DOMAIN calls : \E j1, j2, j3 \in DOMAIN calls[i].played :
    LET n1 == calls[i].played[j1]
        n2 == calls[i].played[j2]
        n3 == calls[i].played[j3]
        sequence == tracks[n1.origin.track].sequence
    IN /\ n1.origin.track = n2.origin.track /\ n2.origin.track = n3.origin.track
       /\ Cardinality(SettingAround(sequence, n1.origin.path, "velocity")) = 2
       /\ n1.velocity = Some(1)
       /\ Len(n2.origin.path) = 1 /\ n2.velocity = Some(2) /\ n2.volume = None
       /\ n3.volume = Some(6) /\ n3.velocity = Some(4) /\ n3.vibratoFrequency = Some(4)

(***************************************************************************)
(* C16.  Transpose, as first stated: the pitch of a dispatched note is its *)
(* terminal number plus the transposes of all the arrays around it that    *)
(* set one, so the note of [[0, {transpose: 2}], {transpose: 5}] has pitch *)
(* 7; it is the number itself when no array around it sets a transpose.    *)
(***************************************************************************)
C16_TransposeAccumulated ==
  \A i \in DOMAIN calls : \A j \in DOMAIN calls[i].played :
    LET n == calls[i].played[j]
        sequence == tracks[n.origin.track].sequence
    IN n.note = NodeAt(sequence, n.origin.path).v + SumOfTransposes(sequence, n.origin.path)

(***************************************************************************)
(* C16, amended.  Transpose is inherited like the other parameters, not    *)
(* accumulated: the pitch of a dispatched note is its terminal number plus *)
(* the transpose of the innermost array around it that sets one (the last  *)
(* record of that array that sets it), so the note of                      *)
(* [[0, {transpose: 2}], {transpose: 5}] has pitch 2; it is the number     *)
(* itself when no array around it sets a transpose.                        *)
(***************************************************************************)
C16_TransposeNearest ==
  \A i \in DOMAIN calls : \A j \in DOMAIN calls[i].played :
    LET n == calls[i].played[j]
        sequence == tracks[n.origin.track].sequence
        transpose == Nearest(sequence, n.origin.path, "transpose", None)
    IN /\ n.note = NodeAt(sequence, n.origin.path).v
                     + (IF transpose # None THEN transpose[1] ELSE 0)
       /\ SettingAround(sequence, n.origin.path, "transpose") = {} =>
            n.note = NodeAt(sequence, n.origin.path).v
       /\ tracks = <<Track("p1", Arr(<<Arr(<<Num(0), Opt([NoOpts EXCEPT !.transpose = Some(2)])>>), Opt([NoOpts EXCEPT !.transpose = Some(5)])>>))>>
            => n.note = 2

\* the note of [[0, {transpose: 2}], {transpose: 5}] was dispatched, below two arrays
\* that set a transpose
C16_Witness ==
  \E i \in DOMAIN calls : \E j \in DOMAIN calls[i].played :
    LET n == calls[i].played[j]
        sequence == tracks[n.origin.track].sequence
    IN /\ Cardinality(SettingAround(sequence, n.origin.path, "transpose")) = 2
       /\ NodeAt(sequence, n.origin.path).v = 0
       /\ SumOfTransposes(sequence, n.origin.path) = 7

(***************************************************************************)
(* Definitions shared by the properties of the voices.  A note given to a  *)
(* voice keeps it until the willPlayUntil that playInstance sets for it.   *)
(***************************************************************************)
\* the notes dispatched so far, as (invocation, index) pairs in the order of dispatch
Dispatches == UNION { { <<i, j>> : j \in DOMAIN calls[i].played } : i \in DOMAIN calls }

NoteOf(d) == calls[d[1]].played[d[2]]

Before(d1, d2) == d1[1] < d2[1] \/ (d1[1] = d2[1] /\ d1[2] < d2[2])

Until(n) == EndAt(n.instrument, n.at, n.duration)

\* the times at which the two notes keep a voice overlap
Overlap(n1, n2) == n1.at < Until(n2) /\ n2.at < Until(n1)

(***************************************************************************)
(* C17.  Voice exclusivity: no voice is given two notes that overlap.  A   *)
(* note that playPendingNote gives to an existing voice starts at or after *)
(* that voice's willPlayUntil, and notes of one instrument that overlap    *)
(* (the N notes of a chord, say) are played on pairwise distinct voices.   *)
(***************************************************************************)
C17_Exclusive ==
  /\ \A d \in Dispatches :
       NoteOf(d).reused =>
         /\ NoteOf(d).freeAt <= NoteOf(d).at
         /\ \E v \in DOMAIN NoteOf(d).voices :
              /\ NoteOf(d).voices[v].id = NoteOf(d).instance
              /\ NoteOf(d).voices[v].willPlayUntil = NoteOf(d).freeAt
  /\ \A d1, d2 \in Dispatches :
       (d1 # d2 /\ NoteOf(d1).instrument = NoteOf(d2).instrument
        /\ Overlap(NoteOf(d1), NoteOf(d2)))
         => NoteOf(d1).instance # NoteOf(d2).instance

\* of three notes of a chord one was given a voice of its own, and one the voice of
\* another, at that voice's willPlayUntil and before the end of the slice of the note
\* the voice had
C17_Witness ==
  \E d1, d2, d3 \in Dispatches :
    /\ Before(d1, d2)
    /\ NoteOf(d2).reused /\ NoteOf(d2).instance = NoteOf(d1).instance
    /\ NoteOf(d2).at = Until(NoteOf(d1))
    /\ NoteOf(d2).at < NoteOf(d1).at + NoteOf(d1).duration
    /\ NoteOf(d3).instrument = NoteOf(d1).instrument
    /\ Overlap(NoteOf(d3), NoteOf(d1)) /\ Overlap(NoteOf(d3), NoteOf(d2))
    /\ NoteOf(d3).instance # NoteOf(d1).instance

(***************************************************************************)
(* The voice set of the instrument as playPendingNote found it (the field  *)
(* voices of a dispatch), in iteration order, which for a Set is the order *)
(* of insertion.                                                           *)
(***************************************************************************)
\* the indices of the voices that were free for the note
FreeFor(n) == { v \in DOMAIN n.voices : n.voices[v].willPlayUntil <= n.at }

\* the id of the first free voice
FirstFree(n) == n.voices[CHOOSE v \in FreeFor(n) : \A u \in FreeFor(n) : v <= u].id

VoiceIds(n) == { n.voices[v].id : v \in DOMAIN n.voices }

\* the note was given a voice created for it, which the invocation added to the set
GivenNewVoice(d) ==
  /\ ~NoteOf(d).reused
  /\ NoteOf(d).instance \notin VoiceIds(NoteOf(d))
  /\ \E c \in DOMAIN calls[d[1]].created : calls[d[1]].created[c] = NoteOf(d).instance

\* the note was given the first free voice of the set
GivenFirstFree(d) ==
  /\ NoteOf(d).reused
  /\ NoteOf(d).instance = FirstFree(NoteOf(d))

\* the next note of the same instrument in the same invocation found the set as this
\* note left it: one voice longer if a voice was created, as long as it was if not
SetAfter(d) ==
  \A k \in DOMAIN calls[d[1]].played :
    ( /\ k > d[2]
      /\ calls[d[1]].played[k].instrument = NoteOf(d).instrument
      /\ \A j \in d[2] + 1 .. k - 1 :
           calls[d[1]].played[j].instrument # NoteOf(d).instrument )
    => /\ Len(calls[d[1]].played[k].voices) =
            Len(NoteOf(d).voices) + (IF NoteOf(d).reused THEN 0 ELSE 1)
       /\ SubSeq(calls[d[1]].played[k].voices, 1, Len(NoteOf(d).voices)) =
            [v \in DOMAIN NoteOf(d).voices |->
               IF NoteOf(d).voices[v].id = NoteOf(d).instance
                 THEN [NoteOf(d).voices[v] EXCEPT !.willPlayUntil = Until(NoteOf(d))]
                 ELSE NoteOf(d).voices[v]]

\* what lines 313-327 do for every note
CreatesOnlyWhenAllBusy ==
  /\ \A d \in Dispatches :
       /\ IF FreeFor(NoteOf(d)) = {} THEN GivenNewVoice(d) ELSE GivenFirstFree(d)
       /\ SetAfter(d)
  /\ \A i \in DOMAIN calls :
       ~calls[i].thrown =>
         Len(calls[i].created) =
           Cardinality({ j \in DOMAIN calls[i].played : ~calls[i].played[j].reused })

(***************************************************************************)
(* C18.  Voice reuse, as first stated: playPendingNote creates a voice     *)
(* only when every voice of the instrument's set has willPlayUntil > the   *)
(* start of the note; otherwise the first voice in iteration order with    *)
(* willPlayUntil <= start is used and the set does not grow.  Consequently *)
(* two notes of an instrument of which the second starts at or after the   *)
(* willPlayUntil of the first are played on the same voice.                *)
(***************************************************************************)
C18_SameVoice ==
  /\ CreatesOnlyWhenAllBusy
  /\ \A d1, d2 \in Dispatches :
       ( /\ Before(d1, d2)
         /\ NoteOf(d1).instrument = NoteOf(d2).instrument
         /\ NoteOf(d2).at >= Until(NoteOf(d1)) )
       => NoteOf(d2).instance = NoteOf(d1).instance

(***************************************************************************)
(* C18, amended.  The first part as stated.  Of two notes of an instrument *)
(* of which the second starts at or after the willPlayUntil of the first,  *)
(* the second is played on the voice of the first when that voice is still *)
(* in the set and is its first voice in iteration order with willPlayUntil *)
(* <= start; when the voice is in the set and has played nothing since,    *)
(* the second note is played on a voice of the set, that one or one before *)
(* it in iteration order, and no voice is created.                         *)
(***************************************************************************)
C18_FirstFree ==
  /\ CreatesOnlyWhenAllBusy
  /\ \A d1, d2 \in Dispatches :
       ( /\ Before(d1, d2)
         /\ NoteOf(d1).instrument = NoteOf(d2).instrument
         /\ NoteOf(d2).at >= Until(NoteOf(d1)) )
       => LET n == NoteOf(d2)
              mine == { v \in DOMAIN n.voices : n.voices[v].id = NoteOf(d1).instance }
          IN /\ (\E v \in mine \cap FreeFor(n) : \A u \in FreeFor(n) : v <= u) <=>
                  (n.reused /\ n.instance = NoteOf(d1).instance)
             /\ \A v \in mine :
                  n.voices[v].willPlayUntil = Until(NoteOf(d1)) =>
                    /\ n.reused
                    /\ \E u \in 1 .. v : n.voices[u].id = n.instance

\* a note was given the voice of an earlier note; another was given a voice before the
\* one of an earlier note that was free as well; and a third a new voice, the voices of
\* the set being busy
C18_Witness ==
  /\ \E d1, d2 \in Dispatches :
       /\ Before(d1, d2) /\ NoteOf(d1).instrument = NoteOf(d2).instrument
       /\ NoteOf(d2).at >= Until(NoteOf(d1))
       /\ NoteOf(d2).reused /\ NoteOf(d2).instance = NoteOf(d1).instance
  /\ \E d1, d2 \in Dispatches :
       /\ Before(d1, d2) /\ NoteOf(d1).instrument = NoteOf(d2).instrument
       /\ NoteOf(d2).at >= Until(NoteOf(d1))
       /\ NoteOf(d1).instance \in VoiceIds(NoteOf(d2))
       /\ NoteOf(d2).reused /\ NoteOf(d2).instance # NoteOf(d1).instance
  /\ \E d \in Dispatches : NoteOf(d).voices # <<>> /\ ~NoteOf(d).reused

(***************************************************************************)
(* C19.  Connect exactly once: connectInstance is invoked exactly once for *)
(* each voice that is created, right after its creation and before the     *)
(* voice plays its first note, and never for a voice that is reused; so    *)
(* every voice of a voice set that is given a note has been passed to      *)
(* connectInstance exactly once, also when an earlier call of              *)
(* connectInstance threw.                                                  *)
(***************************************************************************)
\* the calls of connectInstance so far with the voice `id`, as (invocation, index)
Connections(id) ==
  UNION { { <<i, c>> : c \in { c \in DOMAIN calls[i].connected : calls[i].connected[c] = id } } : i \in DOMAIN calls }

CreatedIds == UNION { { calls[i].created[c] : c \in DOMAIN calls[i].created } : i \in DOMAIN calls }

C19_ConnectOnce ==
  /\ \A i \in DOMAIN calls : calls[i].connected = calls[i].created
  /\ \A id \in CreatedIds : Cardinality(Connections(id)) = 1
  /\ \A d \in Dispatches :
       /\ NoteOf(d).instance \in CreatedIds
       /\ Cardinality(Connections(NoteOf(d).instance)) = 1
       /\ \A k \in Connections(NoteOf(d).instance) :
            /\ k[1] <= d[1]
            /\ NoteOf(d).reused <=> NoteOf(d).instance \in VoiceIds(NoteOf(d))
            /\ ~NoteOf(d).reused => k[1] = d[1]
  /\ \A p \in Presets : \A v \in DOMAIN schedule.instruments[p].instances :
       Cardinality(Connections(schedule.instruments[p].instances[v].id)) = 1

\* a call of connectInstance threw, and a later invocation gave a note to the voice it
\* had been called with and created and connected another voice
C19_Witness ==
  \E i, k \in DOMAIN calls :
    /\ i < k
    /\ calls[i].thrown /\ calls[i].connected # <<>>
    /\ \E j \in DOMAIN calls[k].played :
         /\ calls[k].played[j].reused
         /\ calls[k].played[j].instance = calls[i].connected[Len(calls[i].connected)]
    /\ calls[k].connected # <<>> /\ ~calls[k].thrown

(***************************************************************************)
(* Definitions shared by the properties of eviction: the voices of a       *)
(* schedule, and the willPlayUntil that a voice has when an invocation     *)
(* ends or destroys it.                                                    *)
(***************************************************************************)
Voices(sch) ==
  UNION { { sch.instruments[p].instances[v] : v \in DOMAIN sch.instruments[p].instances } : p \in Presets }

Ids(sch) == { voice.id : voice \in Voices(sch) }

\* some voice of the schedule is further behind scheduledUpTo than two cycles
HoldsInactive(sch) ==
  \E voice \in Voices(sch) : sch.scheduledUpTo - voice.willPlayUntil > 2 * cycle

\* the indices of the notes that invocation c gave to the voice
NotesOn(c, id) == { j \in DOMAIN c.played : c.played[j].instance = id }

\* the willPlayUntil of the voice after the notes of invocation c, sch being the
\* schedule before it
FinalWillPlayUntil(sch, c, id) ==
  IF NotesOn(c, id) # {}
    THEN Until(c.played[CHOOSE j \in NotesOn(c, id) : \A k \in NotesOn(c, id) : k <= j])
  ELSE IF id \in Ids(sch) THEN (CHOOSE voice \in Voices(sch) : voice.id = id).willPlayUntil
  ELSE 0

CreatedBy(c) == { c.created[k] : k \in DOMAIN c.created }

ReturnedNormally(c) == c.state = "running" /\ ~c.thrown

(***************************************************************************)
(* C20.  Eviction law, as first stated: after every invocation on a        *)
(* running context that returns normally, whether it scheduled a window,   *)
(* only moved the cursor after a stall or found nothing to schedule, no    *)
(* voice set holds a voice with scheduledUpTo - willPlayUntil > 2 * cycle: *)
(* such voices have been destroyed and removed, and the voices with        *)
(* scheduledUpTo - willPlayUntil <= 2 * cycle are kept.                    *)
(***************************************************************************)
C20_EvictionAlways ==
  /\ []((Len(calls) > 0 /\ ReturnedNormally(LastCall)) => ~HoldsInactive(schedule))
  /\ [][LET c == calls'[Len(calls')]
        IN ReturnedNormally(c) =>
             /\ \A id \in Ids(schedule) \cup CreatedBy(c) :
                  id \in Ids(schedule') <=>
                    schedule'.scheduledUpTo - FinalWillPlayUntil(schedule, c, id) <= 2 * cycle
             /\ c.destroyed = (Ids(schedule) \cup CreatedBy(c)) \ Ids(schedule')]_vars

(***************************************************************************)
(* C20, amended.  Eviction is part of scheduling a window: after every     *)
(* invocation that scheduled a window and returned normally no voice set   *)
(* holds a voice with scheduledUpTo - willPlayUntil > 2 * cycle, such      *)
(* voices having been destroyed and removed and the others kept; an        *)
(* invocation that schedules no window (it only moved the cursor after a   *)
(* stall, or found nothing to schedule) destroys no voice and leaves the   *)
(* voice sets as they are, whatever the willPlayUntil of their voices.     *)
(***************************************************************************)
C20_EvictionWindowed ==
  /\ []((Len(calls) > 0 /\ ReturnedNormally(LastCall) /\ LastCall.windowed)
          => ~HoldsInactive(schedule))
  /\ [][LET c == calls'[Len(calls')]
        IN ReturnedNormally(c) =>
             IF c.windowed
               THEN /\ \A id \in Ids(schedule) \cup CreatedBy(c) :
                         id \in Ids(schedule') <=>
                           schedule'.scheduledUpTo - FinalWillPlayUntil(schedule, c, id)
                             <= 2 * cycle
                    /\ c.destroyed = (Ids(schedule) \cup CreatedBy(c)) \ Ids(schedule')
                    /\ \A voice \in Voices(schedule') :
                         voice.willPlayUntil = FinalWillPlayUntil(schedule, c, voice.id)
               ELSE /\ schedule'.instruments = schedule.instruments
                    /\ c.destroyed = {}]_vars

\* a voice created by one invocation was more than two cycles behind scheduledUpTo
\* after a later invocation that moved the cursor after a stall without a window, stayed
\* in its set, and was destroyed by the invocation after that, which scheduled a window
C20_Witness ==
  \E h, i \in DOMAIN calls :
    /\ h < i /\ i < Len(calls)
    /\ ReturnedNormally(calls[i]) /\ ~calls[i].windowed /\ Stalled(calls[i])
    /\ ReturnedNormally(LastCall) /\ LastCall.windowed
    /\ \E id \in CreatedBy(calls[h]) \cap LastCall.destroyed :
         /\ NotesOn(calls[h], id) # {}
         /\ \A k \in h + 1 .. Len(calls) : NotesOn(calls[k], id) = {}
         /\ \A k \in h .. i : id \notin calls[k].destroyed
         /\ \A j \in NotesOn(calls[h], id) :
              calls[i].sutAfter - Until(calls[h].played[j]) > 2 * cycle

(***************************************************************************)
(* Definitions shared by the properties of the instrument map: the entries *)
(* of a schedule whose voice set is empty, and the voices that an          *)
(* invocation leaves to an instrument.                                     *)
(***************************************************************************)
EmptyEntries(sch) ==
  { p \in Presets : sch.instruments[p].exists /\ sch.instruments[p].instances = <<>> }

IdsOf(sch, p) == { sch.instruments[p].instances[v].id : v \in DOMAIN sch.instruments[p].instances }

\* the voices that invocation c created for instrument p and gave a note
CreatedFor(c, p) ==
  { c.played[j].instance : j \in { j \in DOMAIN c.played : c.played[j].instrument = p /\ ~c.played[j].reused } }

\* the voices of instrument p that invocation c, made on schedule sch, does not evict
Remaining(sch, c, p) ==
  { id \in IdsOf(sch, p) \cup CreatedFor(c, p) :
      ~(c.windowed /\ c.sutAfter - FinalWillPlayUntil(sch, c, id) > 2 * cycle) }

\* the instruments of the tracks that dispatched no note in invocation c
SilentPresets(c) ==
  { tracks[t].preset : t \in DOMAIN tracks } \ ({NoPreset} \cup { c.played[j].instrument : j \in DOMAIN c.played })

(***************************************************************************)
(* C21.  Empty instrument entries are removed, as first stated: after      *)
(* every invocation that returns normally the instrument map of the        *)
(* schedule has no entry whose voice set is empty, entries created in that *)
(* invocation for a track that dispatched no note included, and every      *)
(* entry that has a voice is kept.                                         *)
(***************************************************************************)
C21_NoEmptyEntry ==
  /\ []((Len(calls) > 0 /\ ~LastCall.thrown) => EmptyEntries(schedule) = {})
  /\ [][LET c == calls'[Len(calls')]
        IN ~c.thrown =>
             \A p \in Presets :
               Remaining(schedule, c, p) # {} =>
                 /\ schedule'.instruments[p].exists
                 /\ IdsOf(schedule', p) = Remaining(schedule, c, p)]_vars

(***************************************************************************)
(* C21, amended.  Entries are removed where voices are evicted, at the end *)
(* of an invocation that scheduled a window: after every invocation that   *)
(* scheduled a window and returned normally the map has no entry whose     *)
(* voice set is empty (an entry created in that invocation for a track     *)
(* that dispatched no note, or left empty by an earlier invocation that    *)
(* threw, is removed) and every entry that has a voice is kept with its    *)
(* voices; an invocation that schedules no window leaves the map as it is, *)
(* an entry with an empty voice set included.                              *)
(***************************************************************************)
C21_EntriesWindowed ==
  /\ []((Len(calls) > 0 /\ ~LastCall.thrown /\ LastCall.windowed)
          => EmptyEntries(schedule) = {})
  /\ [][LET c == calls'[Len(calls')]
        IN ~c.thrown =>
             IF c.windowed
               THEN \A p \in Presets :
                      /\ schedule'.instruments[p].exists <=> Remaining(schedule, c, p) # {}
                      /\ IdsOf(schedule', p) = Remaining(schedule, c, p)
               ELSE schedule'.instruments = schedule.instruments]_vars

\* an invocation that threw left an entry with an empty voice set, and the next one
\* scheduled a window in which the track of that instrument dispatched no note,
\* returned normally, removed the entry and kept the entry of another instrument
C21_Witness ==
  /\ Len(calls) >= 2
  /\ calls[Len(calls) - 1].thrown
  /\ ~LastCall.thrown /\ LastCall.windowed
  /\ \E p \in SilentPresets(LastCall) : ~schedule.instruments[p].exists
  /\ \E p \in Presets : schedule.instruments[p].instances # <<>>

(***************************************************************************)
(* Definitions shared by the properties of the iteration cap.  A track     *)
(* that is one number per cycle opens a note in every cycle that starts in *)
(* [from, to] and ends the last of them in the cycle after: covering the   *)
(* window and resolving the pending note takes a walk of every cycle from  *)
(* the one `from` lies in to the one after the one `to` lies in.           *)
(***************************************************************************)
\* the calls of schedulePart on the root of track t in the last invocation
RootCalls(t) ==
  { x \in DOMAIN lastParts : lastParts[x].origin.track = t /\ lastParts[x].origin.path = <<>> }

OneNumberPerCycle(t) ==
  /\ tracks[t].preset # NoPreset
  /\ tracks[t].sequence.k = "arr"
  /\ Len(tracks[t].sequence.items) = 1
  /\ tracks[t].sequence.items[1].k = "num"

WalksNeeded(c) == ((c.to \div cycle) - (c.from \div cycle) + 1) + 1

(***************************************************************************)
(* C22.  Termination and iteration cap, as first stated: in an invocation  *)
(* schedulePart is invoked on the root of a track at most 64 times, and    *)
(* the invocation throws the error of the cap exactly when covering the    *)
(* window and resolving the pending note needs more than 64 walks of some  *)
(* track.                                                                  *)
(***************************************************************************)
C22_AtMost64 ==
  (Len(calls) > 0 /\ LastCall.windowed /\ \A t \in DOMAIN tracks : OneNumberPerCycle(t)) =>
    /\ \A t \in DOMAIN tracks : Cardinality(RootCalls(t)) <= MaxCheckedCycles
    /\ LastCall.thrown <=> WalksNeeded(LastCall) > MaxCheckedCycles

(***************************************************************************)
(* C22, amended.  The test of the cap follows the walk: schedulePart is    *)
(* invoked on the root of a track at most 65 times in an invocation.  The  *)
(* invocation throws exactly when covering the window and resolving the    *)
(* pending note needs more than 64 walks of a track, and it throws after   *)
(* the 65th walk, whose notes have been dispatched; an invocation that     *)
(* needs 64 walks or fewer makes exactly the walks it needs and returns.   *)
(* An invocation that schedules no window walks no track.                  *)
(***************************************************************************)
C22_AtMost65 ==
  Len(calls) > 0 =>
    /\ \A t \in DOMAIN tracks : Cardinality(RootCalls(t)) <= MaxCheckedCycles + 1
    /\ ~LastCall.windowed => lastParts = <<>> /\ ~LastCall.thrown
    /\ (LastCall.windowed /\ \A t \in DOMAIN tracks : OneNumberPerCycle(t)) =>
         /\ LastCall.thrown <=> WalksNeeded(LastCall) > MaxCheckedCycles
         /\ \A t \in DOMAIN tracks :
              Cardinality(RootCalls(t)) =
                IF LastCall.thrown THEN MaxCheckedCycles + 1 ELSE WalksNeeded(LastCall)
         /\ \A t \in DOMAIN tracks : \A x \in RootCalls(t) :
              Cardinality({ y \in RootCalls(t) : y <= x }) =
                lastParts[x].period - (LastCall.from \div cycle) + 1

\* an invocation needed 65 walks, one more than the cap allows: it walked the track 65
\* times, dispatched in the 65th walk the last note of its window, and threw
C22_Witness ==
  /\ Len(calls) > 0
  /\ LastCall.windowed /\ WalksNeeded(LastCall) = MaxCheckedCycles + 1
  /\ LastCall.thrown /\ Cardinality(RootCalls(1)) = MaxCheckedCycles + 1
  /\ ~LastCall.pendingAfter
  /\ \E j \in DOMAIN LastCall.played : LastCall.played[j].at = LastCall.to

(***************************************************************************)
(* C23.  Missing collaborator: when scheduleMusic is invoked without a     *)
(* connectInstance callback, an invocation in which a note requires a new  *)
(* voice throws at the call of the callback; no note is played on a voice  *)
(* that was not connected, and no voice that was never connected is left   *)
(* in the voice set of an instrument for a later invocation to reuse.      *)
(***************************************************************************)
C23_FailFast ==
  connectCallback = "undefined" =>
    /\ \A i \in DOMAIN calls :
         calls[i].created # <<>> =>
           /\ calls[i].thrown
           /\ Len(calls[i].created) = 1 /\ calls[i].connected = calls[i].created
           /\ NotesOn(calls[i], calls[i].created[1]) = {}
    /\ \A d \in Dispatches :
         \E v \in DOMAIN NoteOf(d).voices :
           NoteOf(d).voices[v].id = NoteOf(d).instance /\ NoteOf(d).voices[v].connected
    /\ \A voice \in Voices(schedule) : voice.connected

(***************************************************************************)
(* C24.  Determinism: two independent schedules started from the initial   *)
(* state and driven with the same sequence of (currentTime, hidden,        *)
(* context state) inputs, the same tracks, cycle and playAhead, produce    *)
(* the same sequence of dispatches (instrument, pitch, start, duration,    *)
(* velocity, volume, vibrato, vibratoFrequency) and the same scheduledUpTo *)
(* after every invocation, whatever the first schedule has done in the     *)
(* meantime.                                                               *)
(***************************************************************************)
\* what playInstance was given for the notes of invocation c, in order
DispatchesOf(c) ==
  [j \in DOMAIN c.played |->
     <<c.played[j].instrument, c.played[j].note, c.played[j].root, c.played[j].at,
       c.played[j].duration, c.played[j].velocity, c.played[j].volume, c.played[j].vibrato,
       c.played[j].vibratoFrequency>>]

C25_OwnPendingNote ==
  /\ \A x \in DOMAIN lastWalk :
       LET e == lastWalk[x] IN
       e.before.pending =>
         /\ e.before.origin.track = e.origin.track
         /\ e.before.instrument = tracks[e.origin.track].preset
         /\ \E y \in 1 .. x - 1 :
              /\ Opened(lastWalk[y])
              /\ lastWalk[y].origin = e.before.origin /\ lastWalk[y].at = e.before.at
  /\ \A d \in Dispatches :
       NoteOf(d).instrument = tracks[NoteOf(d).origin.track].preset

(***************************************************************************)
(* C26.  A terminal number whose start is before `from` opens no note, but *)
(* a note that is pending when it is reached is flushed first: dispatched  *)
(* with the duration it has, the pending flag cleared.  So in the chord of *)
(* sequences [[1, 2], [3, undefined], {chord: true}], walked with `from`   *)
(* at the second half of the cycle, note 2 is ended by reaching 3 and is   *)
(* dispatched with its own slice, not lengthened by the `undefined` after  *)
(* 3.                                                                      *)
(***************************************************************************)
ChordOfSequences == <<Track("p1", Arr(<<Arr(<<Num(1), Num(2)>>), Arr(<<Num(3), Ext>>), ChordOpt>>))>>

C26_FlushBeforeDiscard ==
  /\ \A x \in DOMAIN lastWalk :
       LET e == lastWalk[x] IN
       (e.kind = "num" /\ e.at < e.from) =>
         IF e.before.pending
           THEN /\ e.after = [e.before EXCEPT !.pending = FALSE]
                /\ e.playedAfter = e.playedBefore + 1
                /\ LastCall.played[e.playedAfter].origin = e.before.origin
                /\ LastCall.played[e.playedAfter].duration = e.before.duration
           ELSE e.after = e.before /\ e.playedAfter = e.playedBefore
  /\ (tracks = ChordOfSequences /\ cycle = 12) =>
       \A d \in Dispatches :
         NodeOf(NoteOf(d).origin).v = 2 => NoteOf(d).duration = 6

(***************************************************************************)
(* C27.  Every note that is opened is dispatched exactly once before the   *)
(* invocation that opened it ends, unless that invocation throws: the      *)
(* walk of a track goes on into further cycles while a note is pending,    *)
(* each opened note is flushed by a later number or null, an invocation    *)
(* that returns leaves no note pending and has dispatched nothing but the  *)
(* notes it opened; and a flush clears the pending flag before the voice   *)
(* is obtained, so that an invocation in which connectInstance throws      *)
(* leaves no note pending to be dispatched again.                          *)
(***************************************************************************)
\* the notes that the last invocation dispatched for the note opened at event x
DispatchedFor(x) ==
  { j \in DOMAIN LastCall.played :
      LastCall.played[j].origin = lastWalk[x].origin /\ LastCall.played[j].at = lastWalk[x].at }

\* event y ended the note opened at event x
Flushes(y, x) ==
  /\ lastWalk[y].kind \in {"num", "null"}
  /\ lastWalk[y].before.pending
  /\ lastWalk[y].before.origin = lastWalk[x].origin
  /\ lastWalk[y].playedAfter = lastWalk[y].playedBefore + 1
  /\ lastWalk[y].playedAfter \in DispatchedFor(x)

C27_DispatchedOnce ==
  Len(calls) > 0 =>
    /\ ~LastCall.thrown =>
         /\ ~schedule.pendingNote.pending
         /\ \A x \in DOMAIN lastWalk :
              Opened(lastWalk[x]) =>
                /\ Cardinality(DispatchedFor(x)) = 1
                /\ \E y \in x + 1 .. Len(lastWalk) : Flushes(y, x)
         /\ Len(LastCall.played) =
              Cardinality({ x \in DOMAIN lastWalk : Opened(lastWalk[x]) })
    /\ LastCall.thrown =>
         /\ ~schedule.pendingNote.pending
         /\ \A x \in DOMAIN lastWalk :
              Opened(lastWalk[x]) => Cardinality(DispatchedFor(x)) <= 1

\* after an invocation in which connectInstance threw, an invocation returned that had
\* walked a track beyond the cycles within reach to end a note, and dispatched every
\* note it opened
C27_Witness ==
  /\ Len(calls) >= 2
  /\ calls[Len(calls) - 1].thrown /\ ~calls[Len(calls) - 1].pendingAfter
  /\ ~LastCall.thrown /\ LastCall.windowed
  /\ \E t \in DOMAIN tracks :
       Cardinality(RootCalls(t)) > CyclesToCheck(LastCall.from, LastCall.to, cycle)
  /\ \E x \in DOMAIN lastWalk : Opened(lastWalk[x])

\* every window [from, to) that was walked, by an invocation of the caller (inner = 0)
\* or by the inner-th invocation made by the callback during it
WalkedWindows ==
  {[call |-> i, inner |-> 0, from |-> calls[i].from, to |-> calls[i].to] :
      i \in {j \in DOMAIN calls : calls[j].windowed}}
  \cup UNION {{[call |-> i, inner |-> k, from |-> calls[i].nested[k].from,
                to |-> calls[i].nested[k].to] :
                 k \in {m \in DOMAIN calls[i].nested : calls[i].nested[m].windowed}} :
              i \in DOMAIN calls}

\* the invocation that the step makes, had its callback wired the voice and returned
WithoutReentry == Invocation(schedule, "connects", currentTime', hidden', ctxState').call

\* C28: an invocation made from inside the connectInstance callback finds the window
\* of its caller already claimed: it walks no window, dispatches no note, creates and
\* destroys no voice; the invocation that it interrupts dispatches what it would have
\* dispatched without it; and no two windows that are walked, by invocations of the
\* caller or of the callback, overlap
C28_ClaimBeforeWork ==
  /\ [](\A i \in DOMAIN calls : \A k \in DOMAIN calls[i].nested :
          LET inner == calls[i].nested[k]
          IN /\ inner.sutBefore = calls[i].to
             /\ ~inner.windowed
             /\ inner.playedAfter = inner.playedBefore
             /\ inner.created = 0
             /\ inner.destroyed = {})
  /\ [](\A a, b \in WalkedWindows : a # b => a.to <= b.from \/ b.to <= a.from)
  /\ [][Len(calls') > Len(calls) =>
          /\ calls'[Len(calls')].played = WithoutReentry.played
          /\ calls'[Len(calls')].sutAfter = WithoutReentry.sutAfter]_vars

\* C28 witness: an invocation that followed another walked a window and dispatched
\* notes on two voices it created, and the callback called scheduleMusic for each
C28_Witness ==
  /\ Len(calls) >= 2
  /\ calls[1].windowed
  /\ LastCall.windowed
  /\ Len(LastCall.nested) >= 2
  /\ Len(LastCall.created) >= 2
  /\ Len(LastCall.played) >= 2

\* the root of track t is an alternating array with trailing option records
AlternateRoot(t) ==
  /\ tracks[t].preset # NoPreset
  /\ tracks[t].sequence.k = "arr"
  /\ TrailingOptions(tracks[t].sequence)
  /\ FlagSet(tracks[t].sequence, "alternate")
  /\ NonOptions(tracks[t].sequence) >= 1

\* the number of calls of schedulePart on the root of the track of entry x that the
\* last invocation made before the one of entry x
WalksBefore(x) ==
  Cardinality({ y \in RootCalls(lastParts[x].origin.track) : y < x })

\* the index of the cycle that the time lies in
CycleIndex(at) == at \div cycle

\* C29: the k-th walk of a track in an invocation starts at
\* (floor(from / cycle) + k) * cycle with the period cycleStart / cycle; the walk of
\* the cycle with index c of a track whose root is an alternating array with N children
\* goes into child c mod N and no other; and every note that any invocation dispatched
\* for such a track and that starts in the cycle with index c is a note of child c mod N
C29_AbsoluteCycle ==
  /\ \A t \in DOMAIN tracks : \A x \in RootCalls(t) :
       /\ lastParts[x].at = (CycleIndex(LastCall.from) + WalksBefore(x)) * cycle
       /\ lastParts[x].period = CycleIndex(lastParts[x].at)
       /\ (AlternateRoot(t) /\ AlternateEntered(x)) =>
            Selected(x) = { CycleIndex(lastParts[x].at) % NonOptions(tracks[t].sequence) }
  /\ \A i \in DOMAIN calls : \A n \in DOMAIN calls[i].played :
       LET p == calls[i].played[n]
           t == p.origin.track
       IN AlternateRoot(t) =>
            p.origin.path[1] = CycleIndex(p.at) % NonOptions(tracks[t].sequence)

\* C29 witness: an invocation found the schedule stalled and skipped at least one
\* whole cycle, its window began inside a cycle, and it dispatched a note of a child
\* other than the first in a cycle past the first turn through the children
C29_Witness ==
  /\ Len(calls) >= 2
  /\ calls[Len(calls) - 1].windowed
  /\ LastCall.windowed
  /\ CycleIndex(LastCall.from) > CycleIndex(calls[Len(calls) - 1].to) + 1
  /\ \E n \in DOMAIN LastCall.played :
       LET p == LastCall.played[n]
       IN /\ AlternateRoot(p.origin.track)
          /\ CycleIndex(p.at) >= NonOptions(tracks[p.origin.track].sequence)
          /\ p.origin.path[1] # 0

\* the origin of the array that the child of origin g is a child of
ParentOf(g) == [g EXCEPT !.path = SubSeq(@, 1, Len(@) - 1)]

\* the events of the last walk that are evaluations made for a child of an array
\* with no child other than option records
UnderEmpty ==
  { x \in DOMAIN lastWalk :
      /\ Len(lastWalk[x].origin.path) >= 1
      /\ NodeOf(ParentOf(lastWalk[x].origin)).k = "arr"
      /\ NonOptions(NodeOf(ParentOf(lastWalk[x].origin))) = 0 }

\* C30: evaluating an array with no child other than option records dispatches no
\* note, opens no note and leaves the pending note, its flag and its duration, as it was
C30_EmptyNoOp ==
  \A x \in UnderEmpty :
    /\ lastWalk[x].after = lastWalk[x].before
    /\ lastWalk[x].playedAfter = lastWalk[x].playedBefore

\* entry x of lastParts is an array that sets both the alternate and the chord flag
BothEntered(x) ==
  /\ EnteredArray(x)
  /\ FlagSet(NodeOf(lastParts[x].origin), "alternate")
  /\ FlagSet(NodeOf(lastParts[x].origin), "chord")
  /\ NonOptions(NodeOf(lastParts[x].origin)) >= 1

\* C31: an array with N children that sets both the alternate and the chord flag, in
\* one option record or in several, evaluated at a whole period p, goes into exactly
\* one child, the one at index p mod N, once, with the array's start and duration and
\* the period (p - index) / N; and every note dispatched for a track whose root is such
\* an array and that starts in the cycle with index c is a note of child c mod N
C31_AlternateWins ==
  /\ \A x \in DOMAIN lastParts :
       LET e == lastParts[x]
           N == NonOptions(NodeOf(e.origin))
       IN BothEntered(x) =>
            /\ Selected(x) = { e.period % N }
            /\ Cardinality(ChildCalls(x, e.period % N)) = 1
            /\ \A y \in ChildCalls(x, e.period % N) :
                 /\ lastParts[y].at = e.at
                 /\ lastParts[y].duration = e.duration
                 /\ lastParts[y].period = (e.period - (e.period % N)) \div N
  /\ \A i \in DOMAIN calls : \A n \in DOMAIN calls[i].played :
       LET p == calls[i].played[n]
           t == p.origin.track
       IN (AlternateRoot(t) /\ FlagSet(tracks[t].sequence, "chord")) =>
            p.origin.path[1] = CycleIndex(p.at) % NonOptions(tracks[t].sequence)

\* C31 witness: one walk went into an array of three children with both flags in one
\* record and into an array of two children with the flags in two records, at a
\* period that selects a child other than the first, and a note of that child of the
\* first one was dispatched
C31_Witness ==
  /\ \E x1, x2 \in DOMAIN lastParts :
       /\ BothEntered(x1) /\ BothEntered(x2)
       /\ lastParts[x1].origin.track = 1 /\ lastParts[x2].origin.track = 2
       /\ Selected(x1) = {1} /\ Selected(x2) = {1}
  /\ \E n \in DOMAIN LastCall.played :
       LastCall.played[n].origin.track = 1 /\ LastCall.played[n].origin.path = <<1>>

\* the evaluations of an element of an unknown type in the last walk
UnknownEvaluated == { x \in DOMAIN lastWalk : lastWalk[x].kind = "other" }

\* C32: an element of an unknown type raises no error; evaluating it dispatches
\* nothing and leaves the pending note, its flag and its duration, as it was; and it
\* counts as a child: in a sequence of N children with such an element, child i, the
\* element included, is evaluated once, at the array's start plus i slices of 1/N of
\* the array's duration, with a slice for duration
C32_UnknownIgnored ==
  /\ \A i \in DOMAIN calls : ~calls[i].thrown
  /\ \A x \in UnknownEvaluated :
       /\ lastWalk[x].after = lastWalk[x].before
       /\ lastWalk[x].playedAfter = lastWalk[x].playedBefore
  /\ \A x \in DOMAIN lastParts :
       LET e == lastParts[x]
           node == NodeOf(e.origin)
           N == Len(node.items) - Cardinality(OptionIndices(node))
       IN ( /\ e.kind = "arr" /\ ~e.returned
            /\ \E c \in DOMAIN node.items : node.items[c].k = "other"
            /\ ~FlagSet(node, "alternate") /\ ~FlagSet(node, "chord") ) =>
            \A i \in 0 .. N - 1 :
              /\ Cardinality(ChildCalls(x, i)) = 1
              /\ \A y \in ChildCalls(x, i) :
                   /\ lastParts[y].kind = node.items[i + 1].k
                   /\ lastParts[y].at = e.at + i * (e.duration \div N)
                   /\ lastParts[y].duration = e.duration \div N

\* C32 witness: an element of an unknown type was evaluated while a note was pending,
\* the number after it was evaluated two slices after the start of the array, and
\* the note that was pending was dispatched with the duration of one slice
C32_Witness ==
  /\ \E x \in UnknownEvaluated :
       /\ lastWalk[x].before.pending
       /\ lastWalk[x].origin.path = <<1>>
       /\ \E y \in DOMAIN lastWalk :
            /\ y > x
            /\ lastWalk[y].kind = "num"
            /\ lastWalk[y].origin.path = <<2>>
            /\ lastWalk[y].at = lastWalk[x].at + lastWalk[x].duration
            /\ lastWalk[y].playedAfter = lastWalk[y].playedBefore + 1
            /\ LastCall.played[lastWalk[y].playedAfter].duration = lastWalk[x].duration
            /\ LastCall.played[lastWalk[y].playedAfter].at = lastWalk[x].at - lastWalk[x].duration

\* the first call of schedulePart on the root of each track in the last invocation
FirstWalks == { x \in DOMAIN lastParts : lastParts[x].origin.path = <<>> /\ WalksBefore(x) = 0 }

\* C33: an invocation that returns normally leaves schedule.pendingNote.pending false,
\* and in an invocation that follows only invocations that returned normally no note
\* is pending when the walk of a track starts
C33_NoTieLeftOpen ==
  /\ \A i \in DOMAIN calls : ~calls[i].thrown => ~calls[i].pendingAfter
  /\ (\A i \in 1 .. Len(calls) - 1 : ~calls[i].thrown) =>
       \A x \in FirstWalks : ~lastParts[x].pending

\* C34: a voice that an invocation gives to destroyInstance has a willPlayUntil that
\* is not after the currentTime that the invocation read, and is not a voice that the
\* same invocation gave a note to
C34_NoBusyVoiceDestroyed ==
  \A i \in DOMAIN calls :
    /\ \A v \in calls[i].evicted : v.willPlayUntil <= calls[i].now
    /\ \A n \in DOMAIN calls[i].played : calls[i].played[n].instance \notin calls[i].destroyed

\* C35: every note that an invocation dispatches starts at or after the `from` of the
\* invocation and at or after the currentTime that the invocation read
C35_NoNoteInThePast ==
  \A i \in DOMAIN calls : \A n \in DOMAIN calls[i].played :
    /\ calls[i].played[n].at >= calls[i].from
    /\ calls[i].played[n].at >= calls[i].now

\* entry x of lastParts is an alternating array that is a child of the root, the
\* root alternating too
InnerAlternate(x) ==
  /\ AlternateEntered(x)
  /\ Len(lastParts[x].origin.path) = 1
  /\ AlternateRoot(lastParts[x].origin.track)

\* entries x1 and x2 are two selections of the same inner array, one after the other
NextSelection(x1, x2) ==
  /\ InnerAlternate(x1) /\ InnerAlternate(x2) /\ x1 < x2
  /\ lastParts[x1].origin.track = lastParts[x2].origin.track
  /\ lastParts[x1].origin.path = lastParts[x2].origin.path
  /\ ~\E x \in DOMAIN lastParts :
        /\ x1 < x /\ x < x2 /\ InnerAlternate(x)
        /\ lastParts[x].origin.track = lastParts[x1].origin.track

\* the periods of the walks of the root of track t in the last invocation
WalkedPeriods(t) == { lastParts[x].period : x \in RootCalls(t) }

\* C36: every call of schedulePart has a whole period >= 0, the period that an
\* alternating array of N children passes to the child it selects being exactly
\* (period - index) / N and any other array passing its own; an alternating array
\* inside an alternating root is evaluated, from one selection to the next, with a
\* period one higher and goes into the child one further (the first after the last);
\* and in any N_outer * N_inner consecutive cycles that an invocation walks, every child
\* of the inner array is gone into exactly once
C36_NestedAlternation ==
  /\ \A x \in DOMAIN lastParts :
       LET e == lastParts[x]
           N == NonOptions(NodeOf(e.origin))
       IN /\ e.period >= 0
          /\ AlternateEntered(x) =>
               \A y \in ChildCalls(x, e.period % N) :
                 lastParts[y].period * N + (e.period % N) = e.period
          /\ (EnteredArray(x) /\ ~FlagSet(NodeOf(e.origin), "alternate")) =>
               \A i \in 0 .. N - 1 : \A y \in ChildCalls(x, i) : lastParts[y].period = e.period
  /\ \A x1, x2 \in DOMAIN lastParts :
       LET N == NonOptions(NodeOf(lastParts[x1].origin))
       IN NextSelection(x1, x2) =>
            /\ lastParts[x2].period = lastParts[x1].period + 1
            /\ \A i1 \in Selected(x1), i2 \in Selected(x2) : i2 = (i1 + 1) % N
  /\ \A x \in DOMAIN lastParts : InnerAlternate(x) =>
       LET t == lastParts[x].origin.track
           turn == NonOptions(tracks[t].sequence) * NonOptions(NodeOf(lastParts[x].origin))
       IN \A c \in WalkedPeriods(t) :
            (\A d \in 0 .. turn - 1 : c + d \in WalkedPeriods(t)) =>
              \A k \in 0 .. NonOptions(NodeOf(lastParts[x].origin)) - 1 :
                Cardinality({ y \in DOMAIN lastParts :
                                /\ InnerAlternate(y)
                                /\ lastParts[y].origin.track = t
                                /\ lastParts[y].origin.path = lastParts[x].origin.path
                                /\ lastParts[y].origin.cyc \in c .. c + turn - 1
                                /\ Selected(y) = {k} }) = 1

\* C36 witness: one invocation walked six consecutive cycles of a root of two children
\* whose second child alternates between three, and went into the inner array three
\* times, into its first, second and third child in that order
C36_Witness ==
  \E x1, x2, x3 \in DOMAIN lastParts :
    /\ NextSelection(x1, x2) /\ NextSelection(x2, x3)
    /\ NonOptions(NodeOf(lastParts[x1].origin)) = 3
    /\ Selected(x1) = {0} /\ Selected(x2) = {1} /\ Selected(x3) = {2}
    /\ \A d \in 0 .. 5 :
         lastParts[x1].origin.cyc - 1 + d \in WalkedPeriods(lastParts[x1].origin.track)
    /\ \E n \in DOMAIN LastCall.played : LastCall.played[n].origin.path = <<1, 1>>

\* the notes given to voice id, in the order in which playInstance was called
GivenTo(id) ==
  UNION { { <<i, n>> : n \in { m \in DOMAIN calls[i].played : calls[i].played[m].instance = id } } :
          i \in DOMAIN calls }

Earlier(a, b) == a[1] < b[1] \/ (a[1] = b[1] /\ a[2] < b[2])

NoteGiven(a) == calls[a[1]].played[a[2]]

\* the voices of the schedule
VoicesOf(sch) ==
  UNION { { sch.instruments[p].instances[j] : j \in DOMAIN sch.instruments[p].instances } :
          p \in Presets }

\* C37: the notes given to one voice have start times that do not decrease, in the
\* order in which they are given, each starting at or after the willPlayUntil that
\* the note before it set; and the willPlayUntil of a voice never decreases while the
\* voice is in the schedule
C37_VoiceTimeOrder ==
  /\ [](\A id \in 1 .. schedule.nextId - 1 : \A a, b \in GivenTo(id) :
          Earlier(a, b) =>
            /\ NoteGiven(a).at <= NoteGiven(b).at
            /\ EndAt(NoteGiven(a).instrument, NoteGiven(a).at, NoteGiven(a).duration)
                 <= NoteGiven(b).at)
  /\ [][\A v \in VoicesOf(schedule) : \A u \in VoicesOf(schedule') :
          u.id = v.id => u.willPlayUntil >= v.willPlayUntil]_vars

\* C37 witness: an invocation dispatched the notes of a chord of sequences out of the
\* order of their start times, and gave a voice that had a note already a note that
\* starts later
C37_Witness ==
  /\ Len(calls) >= 2
  /\ \E n \in DOMAIN LastCall.played :
       n + 1 \in DOMAIN LastCall.played /\ LastCall.played[n + 1].at < LastCall.played[n].at
  /\ \E id \in 1 .. schedule.nextId - 1 : \E a, b \in GivenTo(id) :
       /\ Earlier(a, b) /\ b[1] = Len(calls)
       /\ NoteGiven(a).at < NoteGiven(b).at
  /\ \E v \in VoicesOf(schedule) : v.willPlayUntil > 0

\* entry x of lastParts is an array below the root that sets neither flag and that
\* schedulePart went into
PlainNested(x) ==
  /\ EnteredArray(x)
  /\ Len(lastParts[x].origin.path) >= 1
  /\ ~FlagSet(NodeOf(lastParts[x].origin), "alternate")
  /\ ~FlagSet(NodeOf(lastParts[x].origin), "chord")
  /\ NonOptions(NodeOf(lastParts[x].origin)) >= 1

\* the entries of lastParts for the array that the array of entry x is a child of
ParentCalls(x) ==
  { y \in DOMAIN lastParts : y < x /\ lastParts[y].origin = ParentOf(lastParts[x].origin) }

\* C38: an array that sets neither flag is evaluated as a sequence whatever the flags
\* of the arrays around it: each of its N children is evaluated once, child i at the
\* array's start plus i slices of 1/N of its duration, with a slice for duration; and
\* it is given, for each of velocity, volume, vibrato, vibratoFrequency, transpose and
\* root, the value that its parent's option records set, or else the value that its
\* parent was given
C38_FlagsLocal ==
  \A x \in DOMAIN lastParts :
    LET e == lastParts[x]
        N == NonOptions(NodeOf(e.origin))
    IN PlainNested(x) =>
         /\ Selected(x) = 0 .. N - 1
         /\ \A i \in 0 .. N - 1 :
              /\ Cardinality(ChildCalls(x, i)) = 1
              /\ \A y \in ChildCalls(x, i) :
                   /\ lastParts[y].at = e.at + i * (e.duration \div N)
                   /\ lastParts[y].duration = e.duration \div N
         /\ ParentCalls(x) # {}
         /\ \A px \in ParentCalls(x) : \A field \in ValueFields :
              e.P[field] =
                IF LastSet(NodeOf(lastParts[px].origin), field) # None
                  THEN LastSet(NodeOf(lastParts[px].origin), field)
                  ELSE lastParts[px].P[field]

\* C38 witness: one walk went into a chord that sets a velocity and a root and into a
\* child of it that sets no flag, evaluated the second child of that child half the
\* child's duration after its start, and dispatched a note of it with the velocity
C38_Witness ==
  /\ Len(calls) >= 1
  /\ \E x \in DOMAIN lastParts : \E px \in ParentCalls(x) :
       /\ PlainNested(x)
       /\ FlagSet(NodeOf(lastParts[px].origin), "chord")
       /\ lastParts[x].P.velocity = Some(2) /\ lastParts[x].P.root = Some(9)
       /\ \E y \in ChildCalls(x, 1) : lastParts[y].at = lastParts[x].at + lastParts[x].duration \div 2
  /\ \E n \in DOMAIN LastCall.played :
       /\ Len(LastCall.played[n].origin.path) = 2
       /\ LastCall.played[n].origin.path[2] = 1
       /\ LastCall.played[n].velocity = Some(2)
       /\ LastCall.played[n].at > 0

====
